---- MODULE Spec2Model ----
(***************************************************************************)
(* WealthPulse: statement adapters, parse_all_statements, _consolidate and *)
(* the snapshot store (save_portfolio / _load_existing).                   *)
(*                                                                         *)
(* Units.  Money is counted in paise (1/100 rupee), XIRR in 1/100 percent, *)
(* so Python's round(x, 2) of a product of model values is the identity    *)
(* and round(a / b, 2) is RoundDiv(a, b).  Quantities are whole units.     *)
(* Strings that the code takes apart (symbols) are sequences of one-       *)
(* character strings; strings that it only compares are TLA+ strings.      *)
(* A Python dict is a function (its key order is not modelled).            *)
(***************************************************************************)
EXTENDS Integers, Sequences, FiniteSets, TLC

VARIABLES
    statements,    \* the statements directory: broker key -> latest matching file
    config_yaml,   \* config/config.yaml
    pc,            \* position of the parse command's process
    config,        \* the Config object of the running process
    idx,           \* position of the registry loop of parse_all_statements
    results,       \* parse_all_statements: results
    parsed_files,  \* parse_all_statements: parsed_files
    portfolio,     \* the dict returned by _consolidate
    new_stocks,    \* _consolidate: new_stocks (the symbols printed as new)
    disk,          \* data/portfolio_data.json
    defaults,      \* the module-level DEFAULTS dict of the running process
    prev           \* the last _consolidate call (its arguments, the dict it
                   \* returned, and the dict of the call before it when that had
                   \* the same arguments), while no snapshot file exists

vars == <<statements, config_yaml, pc, config, idx, results, parsed_files, portfolio,
          new_stocks, disk, defaults, prev>>

(***************************************************************************)
(* Bounds of the model.                                                    *)
(***************************************************************************)
MaxDirWeight == 3  \* rows and defects of all files of a statements directory
MaxClock == 1      \* datetime.now() returns one of the times 0..MaxClock

(***************************************************************************)
(* Generic helpers.                                                        *)
(***************************************************************************)
Range(s) == {s[i] : i \in 1..Len(s)}

RECURSIVE SumSeq(_)
SumSeq(s) == IF s = <<>> THEN 0 ELSE Head(s) + SumSeq(Tail(s))

RECURSIVE Flatten(_)
Flatten(ss) == IF ss = <<>> THEN <<>> ELSE Head(ss) \o Flatten(Tail(ss))

Abs(x) == IF x < 0 THEN -x ELSE x

Restrict(f, S) == [x \in S |-> f[x]]

(***************************************************************************)
(* round(n / d, 2) on paise, for d > 0: the nearest integer; an exact tie  *)
(* goes to the even neighbour.                                             *)
(***************************************************************************)
RoundDiv(n, d) ==
    LET q == n \div d
        r == n % d
    IN  IF 2 * r < d THEN q
        ELSE IF 2 * r > d THEN q + 1
        ELSE IF q % 2 = 0 THEN q ELSE q + 1

(***************************************************************************)
(* Strings as character sequences.                                         *)
(***************************************************************************)
Lowers == <<"a","b","c","d","e","f","g","h","i","j","k","l","m",
            "n","o","p","q","r","s","t","u","v","w","x","y","z">>
Uppers == <<"A","B","C","D","E","F","G","H","I","J","K","L","M",
            "N","O","P","Q","R","S","T","U","V","W","X","Y","Z">>

UpperChar(c) ==
    IF \E i \in 1..26 : Lowers[i] = c
    THEN Uppers[CHOOSE i \in 1..26 : Lowers[i] = c]
    ELSE c

\* str.upper()
Upper(s) == [i \in 1..Len(s) |-> UpperChar(s[i])]

LowerChar(c) ==
    IF \E i \in 1..26 : Uppers[i] = c
    THEN Lowers[CHOOSE i \in 1..26 : Uppers[i] = c]
    ELSE c

\* str.lower()
Lower(s) == [i \in 1..Len(s) |-> LowerChar(s[i])]

\* str.strip()
RECURSIVE LStrip(_)
LStrip(s) == IF s # <<>> /\ Head(s) = " " THEN LStrip(Tail(s)) ELSE s

RECURSIVE RStrip(_)
RStrip(s) ==
    IF s # <<>> /\ s[Len(s)] = " " THEN RStrip(SubSeq(s, 1, Len(s) - 1)) ELSE s

Strip(s) == RStrip(LStrip(s))

Contains(s, c) == \E i \in 1..Len(s) : s[i] = c

FirstIndex(s, c) == CHOOSE i \in 1..Len(s) : s[i] = c /\ \A j \in 1..(i - 1) : s[j] # c
LastIndex(s, c) == CHOOSE i \in 1..Len(s) : s[i] = c /\ \A j \in (i + 1)..Len(s) : s[j] # c

\* s.rsplit(c, 1)[0] and s.rsplit(c, 1)[1], s.split(c)[-1], for c in s
RSplitBase(s, c) == SubSeq(s, 1, LastIndex(s, c) - 1)
RSplitSuffix(s, c) == SubSeq(s, LastIndex(s, c) + 1, Len(s))
\* s.split(c)[0] and s.split(c, 1)[-1], for c in s
SplitFirst(s, c) == SubSeq(s, 1, FirstIndex(s, c) - 1)
SplitRest(s, c) == SubSeq(s, FirstIndex(s, c) + 1, Len(s))

StartsWith(s, p) == Len(s) >= Len(p) /\ SubSeq(s, 1, Len(p)) = p
EndsWith(s, p) == Len(s) >= Len(p) /\ SubSeq(s, Len(s) - Len(p) + 1, Len(s)) = p

\* BaseParser._normalize_symbol
NormalizeSymbol(symbol) ==
    LET s == Strip(symbol)
    IN  IF Contains(s, "-") /\ Len(RSplitSuffix(s, "-")) <= 2
        THEN IF RSplitSuffix(s, "-") # <<"R", "R">> THEN RSplitBase(s, "-") ELSE s
        ELSE s

(***************************************************************************)
(* Spreadsheet and CSV cells.  kind "num": a numeric cell; "numstr": text  *)
(* that is a plain decimal literal; "sep": text with a thousands separator *)
(* or a currency glyph around a number; "junk": other text; "empty": None  *)
(* or the empty string.  v is the number the text denotes.                 *)
(***************************************************************************)
Num(v) == [kind |-> "num", v |-> v]
NumStr(v) == [kind |-> "numstr", v |-> v]
Sep(v) == [kind |-> "sep", v |-> v]
Junk == [kind |-> "junk", v |-> 0]
Empty == [kind |-> "empty", v |-> 0]

\* float(cell or 0): raises ValueError on text float() does not accept
FloatRaises(cell) == cell.kind \in {"sep", "junk"}
FloatOrZero(cell) == IF cell.kind \in {"num", "numstr"} THEN cell.v ELSE 0

\* dhan._safe_float
SafeFloat(cell) == IF cell.kind \in {"num", "numstr", "sep"} THEN cell.v ELSE 0

(***************************************************************************)
(* Record types of parsers/base.py.                                        *)
(***************************************************************************)
StockHolding(symbol, isin, quantity, avg_price, invested, closing_price, closing_value, broker, sector) ==
    [symbol |-> symbol, isin |-> isin, quantity |-> quantity,
     avg_price |-> avg_price, invested |-> invested,
     closing_price |-> closing_price, closing_value |-> closing_value,
     broker |-> broker, sector |-> sector]

USHolding(symbol, name, quantity, avg_price_usd, current_price_usd, invested_usd, value_usd, source) ==
    [symbol |-> symbol, name |-> name, quantity |-> quantity,
     avg_price_usd |-> avg_price_usd, current_price_usd |-> current_price_usd,
     invested_usd |-> invested_usd, value_usd |-> value_usd, source |-> source]

NPSHolding(pran, scheme_name, fund_manager, asset_class, nav, units, contribution_total, current_value, statement_date) ==
    [pran |-> pran, scheme_name |-> scheme_name, fund_manager |-> fund_manager,
     asset_class |-> asset_class, nav |-> nav, units |-> units,
     contribution_total |-> contribution_total, current_value |-> current_value,
     statement_date |-> statement_date]

EPFOHolding(uan, member_id, establishment, employee_share, employer_share, pension_share, total_balance, interest_earned, statement_date) ==
    [uan |-> uan, member_id |-> member_id, establishment |-> establishment,
     employee_share |-> employee_share, employer_share |-> employer_share,
     pension_share |-> pension_share, total_balance |-> total_balance,
     interest_earned |-> interest_earned, statement_date |-> statement_date]

MutualFundHolding(name, amc, category, sub_category, folio, invested, current, xirr, units, source) ==
    [name |-> name, amc |-> amc, category |-> category,
     sub_category |-> sub_category, folio |-> folio, invested |-> invested,
     current |-> current, xirr |-> xirr, units |-> units, source |-> source]

ParseResult(broker_name) ==
    [stocks |-> <<>>, mutual_funds |-> <<>>, us_holdings |-> <<>>,
     nps_holdings |-> <<>>, epfo_holdings |-> <<>>,
     statement_date |-> "", broker_name |-> broker_name, errors |-> <<>>]

\* What a call of parser.parse(filepath) does: it returns a ParseResult, or
\* an exception leaves it (raised) and there is no result.
Returned(result) == [raised |-> FALSE, result |-> result]
Raised(broker_name) == [raised |-> TRUE, result |-> ParseResult(broker_name)]

(***************************************************************************)
(* A file of the statements directory.  name: its basename; mtime: its     *)
(* modification time; readable: the file opens (as a workbook, for .xlsx); *)
(* header: "ok" when the header row and the symbol column are found,       *)
(* "nosym" when the file has a header without a symbol column the adapter  *)
(* maps, "none" when it has no header at all; rows: the data rows below    *)
(* the header; torn: reading past the last row raises (an undecodable byte *)
(* or an over-long field in a CSV file).                                   *)
(***************************************************************************)
StatementFile(name, mtime, readable, header, rows, torn) ==
    [name |-> name, mtime |-> mtime, readable |-> readable, header |-> header,
     rows |-> rows, torn |-> torn]

\* A PDF statement.  readable: PdfReader opens it; text: what the adapter's
\* regular expressions find in the extracted text (each adapter below says
\* which facts it reads).  A match is a cell: Empty for no match, NumStr or
\* Sep for the digits matched, Junk for a match of separators alone.
PdfFile(name, mtime, readable, text) ==
    [name |-> name, mtime |-> mtime, readable |-> readable, text |-> text]

\* find_latest_file returned None
NoFile == StatementFile(<<>>, 0, FALSE, "none", <<>>, FALSE)

\* filepath.lower().endswith('.csv')
IsCsv(file) == EndsWith(Lower(file.name), <<".", "c", "s", "v">>)

BlankSymbol(raw) == Strip(raw) = <<>>

(***************************************************************************)
(* ZerodhaParser.parse                                                     *)
(***************************************************************************)
ZerodhaRowRaises(row) ==
    FloatRaises(row.qty) \/ FloatRaises(row.avg_price) \/ FloatRaises(row.closing_price)

ZerodhaLot(row) ==
    LET qty == FloatOrZero(row.qty)
        avg_price == FloatOrZero(row.avg_price)
        closing_price == FloatOrZero(row.closing_price)
    IN  StockHolding(NormalizeSymbol(Strip(row.symbol)), row.isin, qty, avg_price,
                     qty * avg_price, closing_price, qty * closing_price,
                     "Zerodha", row.sector)

ZerodhaKeepsRow(row) == ~BlankSymbol(row.symbol)

ZerodhaParse(file) ==
    LET result == ParseResult("Zerodha")
        rows == SelectSeq(file.rows, ZerodhaKeepsRow)
    IN  IF ~file.readable
        THEN Returned([result EXCEPT !.errors = <<"Cannot open">>])
        ELSE IF file.header # "ok"
        THEN Returned([result EXCEPT !.errors = <<"Could not find header row">>])
        ELSE IF \E i \in 1..Len(rows) : ZerodhaRowRaises(rows[i])
        THEN Raised("Zerodha")
        ELSE Returned([result EXCEPT
                 !.stocks = [i \in 1..Len(rows) |-> ZerodhaLot(rows[i])]])

(***************************************************************************)
(* DhanParser.parse, _parse_csv and _parse_xlsx                            *)
(***************************************************************************)
DhanSymbol(raw) ==
    LET symbol == NormalizeSymbol(Upper(Strip(raw)))
    IN  IF Contains(symbol, "-")
           /\ SplitFirst(symbol, "-") \in {<<"N", "S", "E">>, <<"B", "S", "E">>}
        THEN SplitRest(symbol, "-")
        ELSE symbol

DhanLot(row) ==
    LET qty == SafeFloat(row.qty)
        avg_price == SafeFloat(row.avg_price)
        ltp == SafeFloat(row.closing_price)
        cur_value == SafeFloat(row.cur_value)
    IN  StockHolding(DhanSymbol(row.symbol), row.isin, qty, avg_price,
                     qty * avg_price, ltp,
                     IF cur_value > 0 THEN cur_value ELSE qty * ltp,
                     "Dhan", "")

DhanKeepsRow(row) == ~BlankSymbol(row.symbol) /\ SafeFloat(row.qty) > 0

DhanStocks(file) ==
    LET rows == SelectSeq(file.rows, DhanKeepsRow)
    IN  [i \in 1..Len(rows) |-> DhanLot(rows[i])]

DhanParseCsv(file) ==
    LET result == ParseResult("Dhan")
    IN  IF ~file.readable
        THEN Returned([result EXCEPT !.errors = <<"Error parsing Dhan CSV">>])
        ELSE IF file.header = "none"
        THEN Returned([result EXCEPT !.errors = <<"Empty CSV file">>])
        ELSE Returned([result EXCEPT
                 !.stocks = IF file.header = "ok" THEN DhanStocks(file) ELSE <<>>,
                 !.errors = IF file.torn THEN <<"Error parsing Dhan CSV">> ELSE <<>>])

DhanParseXlsx(file) ==
    LET result == ParseResult("Dhan")
    IN  IF ~file.readable
        THEN Returned([result EXCEPT !.errors = <<"Cannot open">>])
        ELSE IF file.header = "none"
        THEN Returned([result EXCEPT !.errors = <<"Could not find header row in Dhan file">>])
        ELSE IF file.header = "nosym"
        THEN Returned([result EXCEPT !.errors = <<"Cannot map columns">>])
        ELSE Returned([result EXCEPT !.stocks = DhanStocks(file)])

DhanParse(file) == IF IsCsv(file) THEN DhanParseCsv(file) ELSE DhanParseXlsx(file)

(***************************************************************************)
(* GrowwParser.  GROWW_NAME_MAP and ISIN_MAP are the dictionaries of       *)
(* groww.py, cut down to the entries the statement rows below can touch    *)
(* and kept in the dictionaries' order.                                    *)
(***************************************************************************)
GROWW_NAME_MAP ==
    <<<<<<"H", "D", "F", "C", " ", "B", "a", "n", "k", " ", "L", "i", "m", "i", "t", "e", "d">>, <<"H", "D", "F", "C", "B", "A", "N", "K">>>>,
      <<<<"I", "n", "f", "o", "s", "y", "s", " ", "L", "i", "m", "i", "t", "e", "d">>, <<"I", "N", "F", "O", "S", "Y", "S">>>>,
      <<<<"T", "a", "t", "a", " ", "C", "o", "n", "s", "u", "l", "t", "a", "n", "c", "y", " ", "S", "e", "r", "v", "i", "c", "e", "s", " ", "L", "i", "m", "i", "t", "e", "d">>, <<"T", "C", "S">>>>>>

ISIN_MAP ==
    <<<<<<"I", "N", "E", "4", "6", "7", "B", "0", "1", "0", "2", "9">>, <<"T", "C", "S">>>>,
      <<<<"I", "N", "E", "0", "4", "0", "A", "0", "1", "0", "3", "4">>, <<"H", "D", "F", "C", "B", "A", "N", "K">>>>>>

\* name.split()[0], for a stripped, non-empty name
FirstWord(name) == IF Contains(name, " ") THEN SplitFirst(name, " ") ELSE name

\* re.sub(r'[^A-Z0-9]', '', s)
AlphaNumeric(s) ==
    SelectSeq(s, LAMBDA c : c \in Range(Uppers)
                               \cup {"0", "1", "2", "3", "4", "5", "6", "7", "8", "9"})

\* dict lookup in a dictionary kept as a sequence of <<key, value>> pairs
HasKey(pairs, key) == \E i \in 1..Len(pairs) : pairs[i][1] = key
Lookup(pairs, key) == pairs[CHOOSE i \in 1..Len(pairs) : pairs[i][1] = key][2]

\* GrowwParser._resolve_symbol
ResolveSymbol(name, isin) ==
    LET first_word == Upper(FirstWord(name))
        fuzzy == {i \in 1..Len(GROWW_NAME_MAP) :
                     Upper(FirstWord(GROWW_NAME_MAP[i][1])) = first_word}
        cleaned == AlphaNumeric(Upper(name))
    IN  IF HasKey(GROWW_NAME_MAP, name) THEN Lookup(GROWW_NAME_MAP, name)
        ELSE IF HasKey(ISIN_MAP, isin) THEN Lookup(ISIN_MAP, isin)
        ELSE IF fuzzy # {}
        THEN GROWW_NAME_MAP[CHOOSE i \in fuzzy : \A j \in fuzzy : i <= j][2]
        ELSE IF isin # <<>> /\ StartsWith(isin, <<"I", "N", "E">>) THEN isin
        ELSE SubSeq(cleaned, 1, IF Len(cleaned) < 15 THEN Len(cleaned) ELSE 15)

GrowwRowRaises(row) ==
    \/ FloatRaises(row.qty) \/ FloatRaises(row.avg_price) \/ FloatRaises(row.invested)
    \/ FloatRaises(row.closing_price) \/ FloatRaises(row.closing_value)

GrowwLot(row) ==
    StockHolding(ResolveSymbol(Strip(row.name), Strip(row.isin)), Strip(row.isin),
                 FloatOrZero(row.qty), FloatOrZero(row.avg_price),
                 FloatOrZero(row.invested), FloatOrZero(row.closing_price),
                 FloatOrZero(row.closing_value), "Groww", "")

GrowwKeepsRow(row) == ~BlankSymbol(row.name)

GrowwParse(file) ==
    LET result == ParseResult("Groww")
        rows == SelectSeq(file.rows, GrowwKeepsRow)
    IN  IF ~file.readable
        THEN Returned([result EXCEPT !.errors = <<"Cannot open">>])
        ELSE IF file.header # "ok"
        THEN Returned([result EXCEPT !.errors =
                 <<"Could not find header row with 'Stock Name'">>])
        ELSE IF \E i \in 1..Len(rows) : GrowwRowRaises(rows[i])
        THEN Raised("Groww")
        ELSE Returned([result EXCEPT
                 !.stocks = [i \in 1..Len(rows) |-> GrowwLot(rows[i])]])

(***************************************************************************)
(* AngelOneParser, UpstoxParser, ICICIDirectParser, HDFCSecuritiesParser,  *)
(* KotakParser and FivePaisaParser.  The six are one text with a few       *)
(* differences, which TabularAdapter records per adapter:                  *)
(*   colon: an "EXCHANGE:" prefix is split off the symbol;                 *)
(*   eq: a "_EQ" suffix is cut off the symbol;                             *)
(*   csv_required: _parse_csv reports a missing symbol or quantity column; *)
(*   csv_cur_value, xlsx_cur_value: the path reads the statement's current *)
(*     value column and prefers it to quantity times last price;           *)
(*   invested_guard: _parse_xlsx sets invested to 0 unless avg_price > 0.  *)
(***************************************************************************)
TabularAdapter(broker) ==
    CASE broker = "angel_one" ->
             [broker_name |-> "Angel One", colon |-> TRUE, eq |-> FALSE,
              csv_required |-> TRUE, csv_cur_value |-> FALSE,
              xlsx_cur_value |-> TRUE, invested_guard |-> TRUE]
      [] broker = "upstox" ->
             [broker_name |-> "Upstox", colon |-> TRUE, eq |-> TRUE,
              csv_required |-> FALSE, csv_cur_value |-> FALSE,
              xlsx_cur_value |-> FALSE, invested_guard |-> FALSE]
      [] broker = "icici_direct" ->
             [broker_name |-> "ICICI Direct", colon |-> TRUE, eq |-> FALSE,
              csv_required |-> FALSE, csv_cur_value |-> FALSE,
              xlsx_cur_value |-> TRUE, invested_guard |-> FALSE]
      [] broker = "hdfc_securities" ->
             [broker_name |-> "HDFC Securities", colon |-> TRUE, eq |-> FALSE,
              csv_required |-> FALSE, csv_cur_value |-> FALSE,
              xlsx_cur_value |-> TRUE, invested_guard |-> FALSE]
      [] broker = "kotak_securities" ->
             [broker_name |-> "Kotak Securities", colon |-> TRUE, eq |-> FALSE,
              csv_required |-> FALSE, csv_cur_value |-> FALSE,
              xlsx_cur_value |-> TRUE, invested_guard |-> FALSE]
      [] broker = "five_paisa" ->
             [broker_name |-> "5paisa", colon |-> FALSE, eq |-> FALSE,
              csv_required |-> FALSE, csv_cur_value |-> TRUE,
              xlsx_cur_value |-> TRUE, invested_guard |-> FALSE]

TabularSymbol(adapter, raw) ==
    LET normalized == NormalizeSymbol(Upper(Strip(raw)))
        unprefixed == IF adapter.colon /\ Contains(normalized, ":")
                      THEN RSplitSuffix(normalized, ":")
                      ELSE normalized
    IN  IF adapter.eq /\ EndsWith(unprefixed, <<"_", "E", "Q">>)
        THEN SubSeq(unprefixed, 1, Len(unprefixed) - 3)
        ELSE unprefixed

TabularLot(adapter, csv, row) ==
    LET qty == SafeFloat(row.qty)
        avg_price == SafeFloat(row.avg_price)
        closing_price == SafeFloat(row.closing_price)
        reads_cur_value == IF csv THEN adapter.csv_cur_value ELSE adapter.xlsx_cur_value
        cur_value == IF reads_cur_value THEN SafeFloat(row.cur_value) ELSE 0
    IN  StockHolding(TabularSymbol(adapter, row.symbol), row.isin, qty, avg_price,
                     IF ~csv /\ adapter.invested_guard /\ avg_price <= 0
                     THEN 0 ELSE qty * avg_price,
                     closing_price,
                     IF cur_value > 0 THEN cur_value ELSE qty * closing_price,
                     adapter.broker_name, "")

TabularKeepsRow(row) == ~BlankSymbol(row.symbol) /\ SafeFloat(row.qty) > 0

TabularStocks(adapter, csv, file) ==
    LET rows == SelectSeq(file.rows, TabularKeepsRow)
    IN  [i \in 1..Len(rows) |-> TabularLot(adapter, csv, rows[i])]

TabularParseCsv(adapter, file) ==
    LET result == ParseResult(adapter.broker_name)
    IN  IF ~file.readable
        THEN Returned([result EXCEPT !.errors = <<"Error parsing CSV">>])
        ELSE IF file.header = "none"
        THEN Returned([result EXCEPT !.errors =
                 IF adapter.csv_required THEN <<"Cannot find required CSV columns">>
                 ELSE <<"Empty CSV file">>])
        ELSE IF file.header = "nosym" /\ adapter.csv_required
        THEN Returned([result EXCEPT !.errors = <<"Cannot find required CSV columns">>])
        ELSE Returned([result EXCEPT
                 !.stocks = IF file.header = "ok"
                            THEN TabularStocks(adapter, TRUE, file) ELSE <<>>,
                 !.errors = IF file.torn THEN <<"Error parsing CSV">> ELSE <<>>])

TabularParseXlsx(adapter, file) ==
    LET result == ParseResult(adapter.broker_name)
    IN  IF ~file.readable
        THEN Returned([result EXCEPT !.errors = <<"Cannot open">>])
        ELSE IF file.header = "none"
        THEN Returned([result EXCEPT !.errors = <<"Could not find header row">>])
        ELSE IF file.header = "nosym"
        THEN Returned([result EXCEPT !.errors = <<"Cannot map columns">>])
        ELSE Returned([result EXCEPT !.stocks = TabularStocks(adapter, FALSE, file)])

TabularParse(adapter, file) ==
    IF IsCsv(file) THEN TabularParseCsv(adapter, file) ELSE TabularParseXlsx(adapter, file)

(***************************************************************************)
(* MorganStanleyParser and FidelityParser.  The facts of the text:         *)
(*   common_symbol: the first of MSFT, AAPL, GOOGL, AMZN, META, TSLA, NVDA *)
(*     the text contains, <<>> when it contains none;                      *)
(*   symbol_match: the first match of Fidelity's symbol_pattern, <<>> when *)
(*     there is none;                                                      *)
(*   shares, price, value: the first match of the adapter's patterns.      *)
(* Quantities are whole shares, prices and values cents.                   *)
(***************************************************************************)
\* float(match.replace(',', '')): ValueError on a match without a digit
MatchRaises(match) == match.kind = "junk"

StockPlanRaises(text) ==
    MatchRaises(text.shares) \/ MatchRaises(text.price) \/ MatchRaises(text.value)

StockPlanHolding(symbol, text, source) ==
    LET qty == text.shares.v
        price == IF text.price.kind = "empty" THEN 0 ELSE text.price.v
        value == IF text.value.kind = "empty" THEN qty * price ELSE text.value.v
    IN  USHolding(symbol, symbol, qty, 0, price, 0, value, source)

\* MorganStanleyParser.parse and _extract_holding
MorganStanleyParse(file) ==
    LET result == ParseResult("MorganStanley")
        text == file.text
    IN  IF ~file.readable
        THEN Returned([result EXCEPT !.errors = <<"Cannot open PDF">>])
        ELSE IF text.common_symbol = <<>> \/ text.shares.kind = "empty"
        THEN Returned(result)
        ELSE IF StockPlanRaises(text) THEN Raised("MorganStanley")
        ELSE Returned([result EXCEPT !.us_holdings =
                 <<StockPlanHolding(text.common_symbol, text, "MorganStanley")>>])

\* FidelityParser.parse and _extract_holdings
FidelityParse(file) ==
    LET result == ParseResult("Fidelity")
        text == file.text
        detected_symbol == IF text.common_symbol # <<>> THEN text.common_symbol
                           ELSE Upper(text.symbol_match)
    IN  IF ~file.readable
        THEN Returned([result EXCEPT !.errors = <<"Cannot open PDF">>])
        ELSE IF detected_symbol = <<>> \/ text.shares.kind = "empty"
        THEN Returned(result)
        ELSE IF StockPlanRaises(text) THEN Raised("Fidelity")
        ELSE Returned([result EXCEPT !.us_holdings =
                 <<StockPlanHolding(detected_symbol, text, "Fidelity")>>])

(***************************************************************************)
(* NPSParser.parse.  The facts of the text:                                *)
(*   long: the text has 100 characters or more;                            *)
(*   class_matches: for each asset class (E, C, G, A) and each tier block, *)
(*     in the order of the two loops, the amount after the first class     *)
(*     pattern that matches in the block (pairs without a match left out); *)
(*   total_matches: the matches of the three total patterns, in order;     *)
(*   contribution: the sum of the employee and employer contributions the  *)
(*     text states; nav, units: the amounts matched, 0 without a match.    *)
(* Amounts are paise.                                                      *)
(***************************************************************************)
NPSClassHoldings(text) ==
    LET plausible == SelectSeq(text.class_matches, LAMBDA m : SafeFloat(m.amount) > 10000)
    IN  [i \in 1..Len(plausible) |->
            NPSHolding("", plausible[i].tier, "", plausible[i].asset_class,
                       0, 0, 0, SafeFloat(plausible[i].amount), "")]

NPSTotalHoldings(text) ==
    LET plausible == SelectSeq(text.total_matches, LAMBDA m : SafeFloat(m) > 100000)
    IN  IF plausible = <<>> THEN <<>>
        ELSE <<NPSHolding("", "Tier I", "", "", 0, 0, 0, SafeFloat(plausible[1]), "")>>

NPSParse(file) ==
    LET result == ParseResult("NPS")
        text == file.text
        holdings_found == IF NPSClassHoldings(text) # <<>> THEN NPSClassHoldings(text)
                          ELSE NPSTotalHoldings(text)
    IN  IF ~file.readable
        THEN Returned([result EXCEPT !.errors = <<"Cannot read NPS PDF">>])
        ELSE IF ~text.long
        THEN Returned([result EXCEPT !.errors = <<"NPS PDF appears empty or unreadable">>])
        ELSE Returned([result EXCEPT
                 !.nps_holdings =
                     [i \in 1..Len(holdings_found) |->
                         [holdings_found[i] EXCEPT
                             !.contribution_total = text.contribution,
                             !.nav = text.nav, !.units = text.units]],
                 !.errors = IF holdings_found = <<>>
                            THEN <<"Could not extract NPS data from PDF">> ELSE <<>>])

(***************************************************************************)
(* EPFOParser._parse_pdf.  The facts of the text:                          *)
(*   long: the text has 50 characters or more;                             *)
(*   closing: the match of the closing balance pattern;                    *)
(*   employee, employer, pension: the last match of each share pattern;    *)
(*   amount_row: the last run of three amounts in a row, <<>> if none;     *)
(*   interest: the match of the interest pattern.                          *)
(* Amounts are paise.                                                      *)
(***************************************************************************)
EPFOParsePdf(file) ==
    LET result == ParseResult("EPFO")
        text == file.text
        closing == SafeFloat(text.closing)
        from_rows == /\ SafeFloat(text.employee) = 0 /\ closing = 0
                     /\ text.amount_row # <<>>
                     /\ \A i \in 1..3 : SafeFloat(text.amount_row[i]) > 10000
        employee_share == IF from_rows THEN SafeFloat(text.amount_row[1])
                          ELSE SafeFloat(text.employee)
        employer_share == IF from_rows THEN SafeFloat(text.amount_row[2])
                          ELSE SafeFloat(text.employer)
        pension_share == IF from_rows THEN SafeFloat(text.amount_row[3])
                         ELSE SafeFloat(text.pension)
        total_balance == IF closing = 0
                         THEN employee_share + employer_share + pension_share
                         ELSE closing
    IN  IF ~file.readable
        THEN Returned([result EXCEPT !.errors = <<"Error parsing EPFO file">>])
        ELSE IF ~text.long
        THEN Returned([result EXCEPT !.errors = <<"EPFO PDF appears empty or unreadable">>])
        ELSE IF total_balance > 0 \/ employee_share > 0
        THEN Returned([result EXCEPT !.epfo_holdings =
                 <<EPFOHolding("", "", "", employee_share, employer_share,
                               pension_share, total_balance,
                               SafeFloat(text.interest), "")>>])
        ELSE Returned([result EXCEPT !.errors =
                 <<"Could not extract EPFO balance from PDF">>])

(***************************************************************************)
(* EPFOParser._parse_xlsx, _parse_csv and _parse_tabular.  header is "ok"  *)
(* when a row names two or more of the columns and the amount columns are  *)
(* mapped, "nosym" when a header row is detected without amount columns,   *)
(* "none" when no row is a header; rows are the rows below the header,     *)
(* each with the cells employee, employer, pension, total and interest;    *)
(* torn: reading the rows raises (the workbook is opened read-only, so     *)
(* the sheet is read by iter_rows, after load_workbook has returned).      *)
(***************************************************************************)
\* str(c).strip() if c else '' is the empty string
EPFOBlankCell(cell) == cell.kind = "empty" \/ (cell.kind = "num" /\ cell.v = 0)

\* not any(cells)
EPFOBlankRow(row) == \A field \in DOMAIN row : EPFOBlankCell(row[field])

EPFOParseTabular(file) ==
    LET result == ParseResult("EPFO")
        valid == SelectSeq(file.rows, LAMBDA row : ~EPFOBlankRow(row))
        last_valid_row == valid[Len(valid)]
        mapped == file.header = "ok"
        ee == IF mapped THEN SafeFloat(last_valid_row.employee) ELSE 0
        er == IF mapped THEN SafeFloat(last_valid_row.employer) ELSE 0
        pension == IF mapped THEN SafeFloat(last_valid_row.pension) ELSE 0
        stated == IF mapped THEN SafeFloat(last_valid_row.total) ELSE 0
        total == IF stated = 0 THEN ee + er + pension ELSE stated
    IN  IF file.header = "none"
        THEN Returned([result EXCEPT !.errors =
                 IF Len(file.rows) < 2 THEN <<"EPFO file has too few rows">>
                 ELSE <<"Cannot detect header row in EPFO file">>])
        ELSE IF file.rows = <<>>
        THEN Returned([result EXCEPT !.errors = <<"EPFO file has too few rows">>])
        ELSE IF valid = <<>>
        THEN Returned([result EXCEPT !.errors = <<"No data rows found in EPFO file">>])
        ELSE IF total > 0 \/ ee > 0
        THEN Returned([result EXCEPT !.epfo_holdings =
                 <<EPFOHolding("", "", "", ee, er, pension, total,
                               IF mapped THEN SafeFloat(last_valid_row.interest) ELSE 0,
                               "")>>])
        ELSE Returned([result EXCEPT !.errors =
                 <<"Could not extract EPFO balance from file">>])

\* Path(filepath).suffix.lower()
HasSuffix(file, suffix) == EndsWith(Lower(file.name), suffix)

\* EPFOParser.parse: every exception becomes an entry of errors
EPFOParse(file) ==
    IF HasSuffix(file, <<".", "p", "d", "f">>) THEN EPFOParsePdf(file)
    ELSE IF HasSuffix(file, <<".", "x", "l", "s", "x">>) \/ IsCsv(file)
    THEN IF ~file.readable \/ file.torn
         THEN Returned([ParseResult("EPFO") EXCEPT !.errors = <<"Error parsing EPFO file">>])
         ELSE EPFOParseTabular(file)
    ELSE Returned([ParseResult("EPFO") EXCEPT !.errors = <<"Unsupported file format">>])

(***************************************************************************)
(* The file handles an adapter call leaves open when parse returns or      *)
(* raises.  CSV files are read inside `with open(...)`; PdfReader and      *)
(* load_workbook(filepath, data_only=True) read the whole file and hold no *)
(* handle once they have returned; load_workbook(..., read_only=True), of  *)
(* EPFOParser._parse_xlsx, keeps the file open until wb.close(), which     *)
(* line 204 calls after the rows are read and no other line calls.         *)
(***************************************************************************)
HandlesLeftOpen(broker, file) ==
    IF broker = "epfo" /\ HasSuffix(file, <<".", "x", "l", "s", "x">>)
       /\ file.readable /\ file.torn
    THEN 1
    ELSE 0

(***************************************************************************)
(* MutualFundParser.parse                                                  *)
(***************************************************************************)
MFRowRaises(row) ==
    FloatRaises(row.units) \/ FloatRaises(row.invested)
        \/ FloatRaises(row.current) \/ FloatRaises(row.xirr)

MFRaw(row) ==
    MutualFundHolding(row.name, row.amc, row.category, row.sub_category,
                      row.folio, FloatOrZero(row.invested), FloatOrZero(row.current),
                      FloatOrZero(row.xirr), FloatOrZero(row.units), row.source)

\* MFAccumulate with the plain mean of the two XIRRs
MFAccumulateUnweighted(c, mf) ==
    [c EXCEPT
        !.xirr = IF c.invested + mf.invested > 0
                 THEN RoundDiv(c.xirr + mf.xirr, 2) ELSE c.xirr,
        !.invested = c.invested + mf.invested,
        !.current = c.current + mf.current,
        !.units = c.units + mf.units]

\* lines 83-92: fold one raw fund into its consolidated entry c
MFAccumulate(c, mf) ==
    LET old_weight == c.invested
        new_weight == mf.invested
        total_weight == old_weight + new_weight
    IN  [c EXCEPT
            !.xirr = IF total_weight > 0
                     THEN RoundDiv(c.xirr * old_weight + mf.xirr * new_weight, total_weight)
                     ELSE c.xirr,
            !.invested = c.invested + mf.invested,
            !.current = c.current + mf.current,
            !.units = c.units + mf.units]

\* lines 75-92: `consolidated`, in insertion order
RECURSIVE MFConsolidate(_, _)
MFConsolidate(consolidated, raw_funds) ==
    IF raw_funds = <<>> THEN consolidated
    ELSE LET mf == Head(raw_funds)
             seen == \E i \in 1..Len(consolidated) : consolidated[i].name = mf.name
             started == IF seen THEN consolidated
                        ELSE Append(consolidated,
                                    [mf EXCEPT !.invested = 0, !.current = 0,
                                               !.xirr = 0, !.units = 0])
             next == [i \in 1..Len(started) |->
                         IF started[i].name = mf.name
                         THEN MFAccumulate(started[i], mf) ELSE started[i]]
         IN  MFConsolidate(next, Tail(raw_funds))

MFKeepsRow(row) == row.name # ""

MutualFundParse(file) ==
    LET result == ParseResult("MutualFunds")
        rows == SelectSeq(file.rows, MFKeepsRow)
    IN  IF ~file.readable
        THEN Returned([result EXCEPT !.errors = <<"Cannot open">>])
        ELSE IF file.header # "ok"
        THEN Returned([result EXCEPT !.errors = <<"Could not find header row">>])
        ELSE IF \E i \in 1..Len(rows) : MFRowRaises(rows[i])
        THEN Raised("MutualFunds")
        ELSE Returned([result EXCEPT
                 !.mutual_funds =
                     MFConsolidate(<<>>, [i \in 1..Len(rows) |-> MFRaw(rows[i])])])

(***************************************************************************)
(* core/config.py: DEFAULTS and Config (the sections the pipeline reads).  *)
(***************************************************************************)
DEFAULTS ==
    [brokers |-> [groww |-> [enabled |-> TRUE],
                  zerodha |-> [enabled |-> TRUE],
                  mutual_funds |-> [enabled |-> TRUE],
                  fidelity |-> [enabled |-> FALSE],
                  morgan_stanley |-> [enabled |-> FALSE]],
     non_equity |-> [nps |-> 0, epf |-> 0, ppf |-> 0, fd |-> 0, bonds |-> 0,
                     gold |-> 0, real_estate |-> 0, cash |-> 0, crypto |-> 0]]

\* Config._deep_merge on a section whose values are dicts
DeepMerge(base, override) ==
    [k \in DOMAIN base \cup DOMAIN override |->
        IF k \notin DOMAIN override THEN base[k]
        ELSE IF k \notin DOMAIN base THEN override[k]
        ELSE override[k] @@ base[k]]

\* Config.__init__ and Config._load for a config.yaml holding `yaml`
Config(yaml) ==
    [brokers |-> DeepMerge(DEFAULTS.brokers, yaml.brokers),
     non_equity |-> DEFAULTS.non_equity,
     verdicts |-> yaml.verdicts]

\* What Config.__init__ and _load leave in the module-level DEFAULTS, defs:
\* dict(DEFAULTS) copies the top level only, so self._data holds the very
\* section dicts of DEFAULTS, and _deep_merge recurses into a section that
\* both have and assigns the keys of config.yaml into it.
DefaultsAfterConfig(defs, yaml) ==
    [section \in DOMAIN defs |->
        IF section \in DOMAIN yaml THEN DeepMerge(defs[section], yaml[section])
        ELSE defs[section]]

\* Config.is_broker_enabled
IsBrokerEnabled(cfg, broker) ==
    /\ broker \in DOMAIN cfg.brokers
    /\ "enabled" \in DOMAIN cfg.brokers[broker]
    /\ cfg.brokers[broker].enabled

(***************************************************************************)
(* core/portfolio.py: the registry (the adapters modelled, in registry     *)
(* order) and the adapter call.                                            *)
(***************************************************************************)
PARSER_REGISTRY ==
    <<"groww", "zerodha", "mutual_funds", "angel_one", "upstox", "icici_direct",
      "hdfc_securities", "kotak_securities", "dhan", "five_paisa",
      "fidelity", "morgan_stanley", "nps", "epfo">>

Brokers == Range(PARSER_REGISTRY)

Pattern(prefix, suffix) == [prefix |-> prefix, suffix |-> suffix]

\* file_patterns of each adapter class, by registry key ("p*s" as Pattern(p, s))
file_patterns(broker) ==
    CASE broker = "groww" ->
            <<Pattern(<<"G", "r", "o", "w", "_">>, <<".", "x", "l", "s", "x">>),
              Pattern(<<"G", "r", "o", "w", "w", "_">>, <<".", "x", "l", "s", "x">>),
              Pattern(<<"g", "r", "o", "w", "w", "_">>, <<".", "x", "l", "s", "x">>)>>
      [] broker = "zerodha" ->
            <<Pattern(<<"Z", "e", "r", "o", "d", "h", "a", "_">>, <<".", "x", "l", "s", "x">>),
              Pattern(<<"z", "e", "r", "o", "d", "h", "a", "_">>, <<".", "x", "l", "s", "x">>),
              Pattern(<<"k", "i", "t", "e", "_">>, <<".", "x", "l", "s", "x">>)>>
      [] broker = "mutual_funds" ->
            <<Pattern(<<"M", "u", "t", "u", "a", "l", "F", "u", "n", "d", "s", "_">>, <<".", "x", "l", "s", "x">>),
              Pattern(<<"m", "f", "_">>, <<".", "x", "l", "s", "x">>),
              Pattern(<<"M", "F", "_">>, <<".", "x", "l", "s", "x">>),
              Pattern(<<"m", "u", "t", "u", "a", "l", "_", "f", "u", "n", "d", "s", "_">>, <<".", "x", "l", "s", "x">>)>>
      [] broker = "angel_one" ->
            <<Pattern(<<"A", "n", "g", "e", "l", "_">>, <<".", "x", "l", "s", "x">>),
              Pattern(<<"a", "n", "g", "e", "l", "_">>, <<".", "x", "l", "s", "x">>),
              Pattern(<<"A", "n", "g", "e", "l", "O", "n", "e", "_">>, <<".", "x", "l", "s", "x">>),
              Pattern(<<"A", "n", "g", "e", "l", "B", "r", "o", "k", "i", "n", "g", "_">>, <<".", "x", "l", "s", "x">>),
              Pattern(<<"a", "n", "g", "e", "l", "o", "n", "e", "_">>, <<".", "x", "l", "s", "x">>),
              Pattern(<<"A", "n", "g", "e", "l", "_">>, <<".", "c", "s", "v">>),
              Pattern(<<"a", "n", "g", "e", "l", "_">>, <<".", "c", "s", "v">>),
              Pattern(<<"A", "n", "g", "e", "l", "O", "n", "e", "_">>, <<".", "c", "s", "v">>)>>
      [] broker = "upstox" ->
            <<Pattern(<<"U", "p", "s", "t", "o", "x", "_">>, <<".", "c", "s", "v">>),
              Pattern(<<"u", "p", "s", "t", "o", "x", "_">>, <<".", "c", "s", "v">>),
              Pattern(<<"U", "p", "s", "t", "o", "x", "_">>, <<".", "x", "l", "s", "x">>),
              Pattern(<<"u", "p", "s", "t", "o", "x", "_">>, <<".", "x", "l", "s", "x">>),
              Pattern(<<"u", "p", "s", "t", "o", "x", "-", "h", "o", "l", "d", "i", "n", "g", "s">>, <<".", "c", "s", "v">>),
              Pattern(<<"u", "p", "s", "t", "o", "x", "-", "h", "o", "l", "d", "i", "n", "g", "s">>, <<".", "x", "l", "s", "x">>)>>
      [] broker = "icici_direct" ->
            <<Pattern(<<"I", "C", "I", "C", "I", "_">>, <<".", "x", "l", "s", "x">>),
              Pattern(<<"i", "c", "i", "c", "i", "_">>, <<".", "x", "l", "s", "x">>),
              Pattern(<<"I", "C", "I", "C", "I", "D", "i", "r", "e", "c", "t", "_">>, <<".", "x", "l", "s", "x">>),
              Pattern(<<"I", "C", "I", "C", "I", "_">>, <<".", "c", "s", "v">>),
              Pattern(<<"i", "c", "i", "c", "i", "_">>, <<".", "c", "s", "v">>),
              Pattern(<<"I", "C", "I", "C", "I", "D", "i", "r", "e", "c", "t", "_">>, <<".", "c", "s", "v">>),
              Pattern(<<"i", "c", "i", "c", "i", "d", "i", "r", "e", "c", "t", "_">>, <<".", "x", "l", "s", "x">>),
              Pattern(<<"i", "c", "i", "c", "i", "d", "i", "r", "e", "c", "t", "_">>, <<".", "c", "s", "v">>)>>
      [] broker = "hdfc_securities" ->
            <<Pattern(<<"H", "D", "F", "C", "_">>, <<".", "x", "l", "s", "x">>),
              Pattern(<<"h", "d", "f", "c", "_">>, <<".", "x", "l", "s", "x">>),
              Pattern(<<"H", "D", "F", "C", "S", "e", "c", "_">>, <<".", "x", "l", "s", "x">>),
              Pattern(<<"H", "D", "F", "C", "_">>, <<".", "c", "s", "v">>),
              Pattern(<<"h", "d", "f", "c", "_">>, <<".", "c", "s", "v">>),
              Pattern(<<"H", "D", "F", "C", "S", "e", "c", "_">>, <<".", "c", "s", "v">>),
              Pattern(<<"h", "d", "f", "c", "s", "e", "c", "_">>, <<".", "x", "l", "s", "x">>),
              Pattern(<<"h", "d", "f", "c", "s", "e", "c", "_">>, <<".", "c", "s", "v">>),
              Pattern(<<"H", "D", "F", "C", "S", "e", "c", "u", "r", "i", "t", "i", "e", "s", "_">>, <<".", "x", "l", "s", "x">>),
              Pattern(<<"H", "D", "F", "C", "S", "e", "c", "u", "r", "i", "t", "i", "e", "s", "_">>, <<".", "c", "s", "v">>)>>
      [] broker = "kotak_securities" ->
            <<Pattern(<<"K", "o", "t", "a", "k", "_">>, <<".", "x", "l", "s", "x">>),
              Pattern(<<"k", "o", "t", "a", "k", "_">>, <<".", "x", "l", "s", "x">>),
              Pattern(<<"K", "o", "t", "a", "k", "S", "e", "c", "_">>, <<".", "x", "l", "s", "x">>),
              Pattern(<<"K", "o", "t", "a", "k", "N", "e", "o", "_">>, <<".", "x", "l", "s", "x">>),
              Pattern(<<"K", "o", "t", "a", "k", "_">>, <<".", "c", "s", "v">>),
              Pattern(<<"k", "o", "t", "a", "k", "_">>, <<".", "c", "s", "v">>),
              Pattern(<<"K", "o", "t", "a", "k", "S", "e", "c", "_">>, <<".", "c", "s", "v">>),
              Pattern(<<"K", "o", "t", "a", "k", "N", "e", "o", "_">>, <<".", "c", "s", "v">>),
              Pattern(<<"k", "o", "t", "a", "k", "s", "e", "c", "u", "r", "i", "t", "i", "e", "s", "_">>, <<".", "x", "l", "s", "x">>),
              Pattern(<<"k", "o", "t", "a", "k", "s", "e", "c", "u", "r", "i", "t", "i", "e", "s", "_">>, <<".", "c", "s", "v">>)>>
      [] broker = "dhan" ->
            <<Pattern(<<"D", "h", "a", "n", "_">>, <<".", "c", "s", "v">>),
              Pattern(<<"d", "h", "a", "n", "_">>, <<".", "c", "s", "v">>),
              Pattern(<<"d", "h", "a", "n", "-", "h", "o", "l", "d", "i", "n", "g", "s">>, <<".", "c", "s", "v">>),
              Pattern(<<"D", "h", "a", "n", "_">>, <<".", "x", "l", "s", "x">>),
              Pattern(<<"d", "h", "a", "n", "_">>, <<".", "x", "l", "s", "x">>),
              Pattern(<<"d", "h", "a", "n", "-", "h", "o", "l", "d", "i", "n", "g", "s">>, <<".", "x", "l", "s", "x">>)>>
      [] broker = "five_paisa" ->
            <<Pattern(<<"5", "p", "a", "i", "s", "a", "_">>, <<".", "x", "l", "s", "x">>),
              Pattern(<<"5", "p", "a", "i", "s", "a", "_">>, <<".", "c", "s", "v">>),
              Pattern(<<"5", "P", "a", "i", "s", "a", "_">>, <<".", "x", "l", "s", "x">>),
              Pattern(<<"5", "P", "a", "i", "s", "a", "_">>, <<".", "c", "s", "v">>),
              Pattern(<<"f", "i", "v", "e", "p", "a", "i", "s", "a", "_">>, <<".", "x", "l", "s", "x">>),
              Pattern(<<"f", "i", "v", "e", "p", "a", "i", "s", "a", "_">>, <<".", "c", "s", "v">>),
              Pattern(<<"F", "i", "v", "e", "P", "a", "i", "s", "a", "_">>, <<".", "x", "l", "s", "x">>),
              Pattern(<<"F", "i", "v", "e", "P", "a", "i", "s", "a", "_">>, <<".", "c", "s", "v">>)>>
      [] broker = "fidelity" ->
            <<Pattern(<<"F", "i", "d", "e", "l", "i", "t", "y", "_">>, <<".", "p", "d", "f">>),
              Pattern(<<"f", "i", "d", "e", "l", "i", "t", "y", "_">>, <<".", "p", "d", "f">>)>>
      [] broker = "morgan_stanley" ->
            <<Pattern(<<"M", "o", "r", "g", "a", "n", "S", "t", "a", "n", "l", "e", "y", "_">>, <<".", "p", "d", "f">>),
              Pattern(<<"m", "o", "r", "g", "a", "n", "_", "s", "t", "a", "n", "l", "e", "y", "_">>, <<".", "p", "d", "f">>),
              Pattern(<<"M", "S", "_">>, <<".", "p", "d", "f">>)>>
      [] broker = "nps" ->
            <<Pattern(<<"N", "P", "S", "_">>, <<".", "p", "d", "f">>),
              Pattern(<<"n", "p", "s", "_">>, <<".", "p", "d", "f">>),
              Pattern(<<"N", "P", "S", "_">>, <<".", "P", "D", "F">>),
              Pattern(<<"N", "S", "D", "L", "_", "N", "P", "S", "_">>, <<".", "p", "d", "f">>),
              Pattern(<<"n", "p", "s", "_", "s", "t", "a", "t", "e", "m", "e", "n", "t", "_">>, <<".", "p", "d", "f">>),
              Pattern(<<"T", "r", "a", "n", "s", "a", "c", "t", "i", "o", "n", "S", "t", "a", "t", "e", "m", "e", "n", "t", "_">>, <<".", "p", "d", "f">>),
              Pattern(<<"N", "P", "S", "-", "S", "O", "T">>, <<".", "p", "d", "f">>)>>
      [] broker = "epfo" ->
            <<Pattern(<<"E", "P", "F", "O", "_">>, <<".", "p", "d", "f">>),
              Pattern(<<"e", "p", "f", "o", "_">>, <<".", "p", "d", "f">>),
              Pattern(<<"E", "P", "F", "_", "P", "a", "s", "s", "b", "o", "o", "k">>, <<".", "p", "d", "f">>),
              Pattern(<<"e", "p", "f", "_", "p", "a", "s", "s", "b", "o", "o", "k">>, <<".", "p", "d", "f">>),
              Pattern(<<"U", "A", "N", "_", "P", "a", "s", "s", "b", "o", "o", "k">>, <<".", "p", "d", "f">>),
              Pattern(<<"p", "a", "s", "s", "b", "o", "o", "k", "_">>, <<".", "p", "d", "f">>),
              Pattern(<<"E", "P", "F", "O", "_">>, <<".", "x", "l", "s", "x">>),
              Pattern(<<"e", "p", "f", "o", "_">>, <<".", "x", "l", "s", "x">>),
              Pattern(<<"E", "P", "F", "O", "_">>, <<".", "c", "s", "v">>),
              Pattern(<<"e", "p", "f", "o", "_">>, <<".", "c", "s", "v">>),
              Pattern(<<"E", "P", "F", "_">>, <<".", "x", "l", "s", "x">>),
              Pattern(<<"E", "P", "F", "_">>, <<".", "c", "s", "v">>)>>

\* glob on a pattern with one "*"
Matches(name, pattern) ==
    /\ Len(name) >= Len(pattern.prefix) + Len(pattern.suffix)
    /\ StartsWith(name, pattern.prefix)
    /\ EndsWith(name, pattern.suffix)

\* BaseParser.find_latest_file, lines 128-131: candidates, pattern by pattern,
\* each glob in the order the directory lists its files
Candidates(broker, directory) ==
    LET patterns == file_patterns(broker)
    IN  Flatten([p \in 1..Len(patterns) |->
                    SelectSeq(directory, LAMBDA f : Matches(f.name, patterns[p]))])

\* FindLatestFile taking the first candidate, whatever its age
FindFirstFile(broker, directory) ==
    LET candidates == Candidates(broker, directory)
    IN  IF candidates = <<>> THEN NoFile ELSE candidates[1]

\* BaseParser.find_latest_file: max(candidates, key=os.path.getmtime), the
\* first of the candidates with the greatest mtime
FindLatestFile(broker, directory) ==
    LET candidates == Candidates(broker, directory)
    IN  IF candidates = <<>> THEN NoFile
        ELSE candidates[CHOOSE i \in 1..Len(candidates) :
                           /\ \A j \in 1..Len(candidates) :
                                 candidates[j].mtime <= candidates[i].mtime
                           /\ \A j \in 1..(i - 1) :
                                 candidates[j].mtime < candidates[i].mtime]

Parse(broker, file) ==
    CASE broker = "zerodha" -> ZerodhaParse(file)
      [] broker = "mutual_funds" -> MutualFundParse(file)
      [] broker = "dhan" -> DhanParse(file)
      [] broker = "groww" -> GrowwParse(file)
      [] broker \in {"angel_one", "upstox", "icici_direct", "hdfc_securities",
                     "kotak_securities", "five_paisa"} ->
             TabularParse(TabularAdapter(broker), file)
      [] broker = "fidelity" -> FidelityParse(file)
      [] broker = "morgan_stanley" -> MorganStanleyParse(file)
      [] broker = "nps" -> NPSParse(file)
      [] broker = "epfo" -> EPFOParse(file)

(***************************************************************************)
(* _consolidate, lines 123-156: stocks.                                    *)
(***************************************************************************)
StockEntry(sym) ==
    [symbol |-> sym, total_qty |-> 0, total_invested |-> 0,
     total_closing_value |-> 0, brokers |-> <<>>]

BrokerEntry(stock) ==
    [broker |-> stock.broker, qty |-> stock.quantity, avg_price |-> stock.avg_price,
     invested |-> stock.invested, closing_price |-> stock.closing_price,
     closing_value |-> stock.closing_value]

\* AddStock with the totals assigned instead of added to
AddStockOverwriting(consolidated_stocks, stock) ==
    LET sym == stock.symbol
        started == IF sym \in DOMAIN consolidated_stocks THEN consolidated_stocks
                   ELSE consolidated_stocks @@ (sym :> StockEntry(sym))
    IN  [started EXCEPT ![sym] =
            [@ EXCEPT !.total_qty = stock.quantity,
                      !.total_invested = stock.invested,
                      !.total_closing_value = stock.closing_value,
                      !.brokers = Append(@, BrokerEntry(stock))]]

\* one iteration of the loop of lines 129-149
AddStock(consolidated_stocks, stock) ==
    LET sym == stock.symbol
        started == IF sym \in DOMAIN consolidated_stocks THEN consolidated_stocks
                   ELSE consolidated_stocks @@ (sym :> StockEntry(sym))
    IN  [started EXCEPT ![sym] =
            [@ EXCEPT !.total_qty = @ + stock.quantity,
                      !.total_invested = @ + stock.invested,
                      !.total_closing_value = @ + stock.closing_value,
                      !.brokers = Append(@, BrokerEntry(stock))]]

RECURSIVE GroupStocks(_, _)
GroupStocks(consolidated_stocks, all_stocks) ==
    IF all_stocks = <<>> THEN consolidated_stocks
    ELSE GroupStocks(AddStock(consolidated_stocks, Head(all_stocks)), Tail(all_stocks))

\* BlendedAvgPrice with round(x) in place of round(x, 2)
BlendedAvgPriceWholeRupees(data) ==
    IF data.total_qty > 0
    THEN 100 * RoundDiv(data.total_invested, 100 * data.total_qty) ELSE 0

\* BlendedAvgPrice taken from the lot seen first
BlendedAvgPriceOfFirstLot(data) ==
    IF data.total_qty > 0 THEN data.brokers[1].avg_price ELSE 0

\* lines 152-156
BlendedAvgPrice(data) ==
    IF data.total_qty > 0 THEN RoundDiv(data.total_invested, data.total_qty) ELSE 0

WithBlended(data) ==
    [symbol |-> data.symbol, total_qty |-> data.total_qty,
     total_invested |-> data.total_invested,
     total_closing_value |-> data.total_closing_value,
     brokers |-> data.brokers, blended_avg_price |-> BlendedAvgPrice(data)]

\* ConsolidatedStocks with the loop started from the stocks of the snapshot
ConsolidatedStocksOverPrior(rs) ==
    LET all_stocks == Flatten([i \in 1..Len(rs) |-> rs[i].stocks])
        grouped == GroupStocks(IF disk.state = "complete" THEN disk.doc.stocks ELSE <<>>,
                               all_stocks)
    IN  [sym \in DOMAIN grouped |-> WithBlended(grouped[sym])]

ConsolidatedStocks(rs) ==
    LET all_stocks == Flatten([i \in 1..Len(rs) |-> rs[i].stocks])
        grouped == GroupStocks(<<>>, all_stocks)
    IN  [sym \in DOMAIN grouped |-> WithBlended(grouped[sym])]

(***************************************************************************)
(* _consolidate, lines 158-225: mutual funds, US, NPS and EPFO holdings.   *)
(***************************************************************************)
MFEntry(mf) ==
    [name |-> mf.name, amc |-> mf.amc,
     category |-> IF mf.sub_category # "" THEN mf.sub_category ELSE mf.category,
     type |-> mf.category, invested |-> mf.invested, current |-> mf.current,
     xirr |-> mf.xirr, num_folios |-> 1]

AllMfs(rs) ==
    LET mfs == Flatten([i \in 1..Len(rs) |-> rs[i].mutual_funds])
    IN  [i \in 1..Len(mfs) |-> MFEntry(mfs[i])]

USEntry(h) ==
    [symbol |-> h.symbol, name |-> h.name, total_qty |-> 0,
     total_invested_usd |-> 0, total_value_usd |-> 0, sources |-> <<>>]

AddUS(us_holdings, h) ==
    LET sym == h.symbol
        started == IF sym \in DOMAIN us_holdings THEN us_holdings
                   ELSE us_holdings @@ (sym :> USEntry(h))
    IN  [started EXCEPT ![sym] =
            [@ EXCEPT !.total_qty = @ + h.quantity,
                      !.total_value_usd = @ + h.value_usd,
                      !.sources = Append(@, [source |-> h.source, qty |-> h.quantity,
                                             value_usd |-> h.value_usd])]]

RECURSIVE GroupUS(_, _)
GroupUS(us_holdings, hs) ==
    IF hs = <<>> THEN us_holdings
    ELSE GroupUS(AddUS(us_holdings, Head(hs)), Tail(hs))

USHoldings(rs) == GroupUS(<<>>, Flatten([i \in 1..Len(rs) |-> rs[i].us_holdings]))

\* NPS and EPFO entries are copied field by field, without merging
NpsHoldings(rs) == Flatten([i \in 1..Len(rs) |-> rs[i].nps_holdings])
EpfoHoldings(rs) == Flatten([i \in 1..Len(rs) |-> rs[i].epfo_holdings])

(***************************************************************************)
(* _consolidate, lines 227-250: verdicts and the Yahoo Finance ticker map. *)
(***************************************************************************)
DefaultVerdict ==
    [verdict |-> "HOLD", risk |-> "Medium", sector |-> "Other",
     pe |-> 0, roe |-> 0, roce |-> 0,
     target_1m |-> 0, target_1y |-> 0, target_5y |-> 0]

\* OverlayVerdicts with the stored entry winning over configuration
OverlayVerdictsStoredWins(existing_verdicts, config_verdicts) ==
    [sym \in DOMAIN existing_verdicts \cup DOMAIN config_verdicts |->
        IF sym \in DOMAIN existing_verdicts THEN existing_verdicts[sym]
        ELSE config_verdicts[sym]]

\* lines 228-231
OverlayVerdicts(existing_verdicts, config_verdicts) ==
    [sym \in DOMAIN existing_verdicts \cup DOMAIN config_verdicts |->
        IF sym \in DOMAIN config_verdicts THEN config_verdicts[sym]
        ELSE existing_verdicts[sym]]

\* NewStocks reporting every held symbol
NewStocksAllHeld(verdicts, consolidated_stocks) == DOMAIN consolidated_stocks

\* lines 233-241: new_stocks
NewStocks(verdicts, consolidated_stocks) ==
    {sym \in DOMAIN consolidated_stocks : sym \notin DOMAIN verdicts}

\* WithDefaultVerdicts assigning the default to every held symbol
WithDefaultVerdictsForAllHeld(verdicts, consolidated_stocks) ==
    [sym \in DOMAIN verdicts \cup DOMAIN consolidated_stocks |->
        IF sym \in DOMAIN consolidated_stocks THEN DefaultVerdict ELSE verdicts[sym]]

\* WithDefaultVerdicts keeping the annotations of held symbols only
WithDefaultVerdictsPruned(verdicts, consolidated_stocks) ==
    [sym \in DOMAIN consolidated_stocks |->
        IF sym \in DOMAIN verdicts THEN verdicts[sym] ELSE DefaultVerdict]

\* lines 234-240
WithDefaultVerdicts(verdicts, consolidated_stocks) ==
    [sym \in DOMAIN verdicts \cup NewStocks(verdicts, consolidated_stocks) |->
        IF sym \in DOMAIN verdicts THEN verdicts[sym] ELSE DefaultVerdict]

\* lines 247-250
YahooMap(consolidated_stocks) ==
    [sym \in {s \in DOMAIN consolidated_stocks :
                 ~StartsWith(s, <<"I", "N", "E">>) /\ ~EndsWith(s, <<"-", "R", "R">>)}
        |-> sym \o <<".", "N", "S">>]

(***************************************************************************)
(* The snapshot file and _load_existing.  state: "absent" (no file),       *)
(* "empty" (a file of length 0), "partial" (the beginning of a document),  *)
(* "complete" (a whole JSON document, doc).                                *)
(***************************************************************************)
SnapshotFile(state, doc) == [state |-> state, doc |-> doc]

NoSnapshot == SnapshotFile("absent", <<>>)

\* LoadRaises with a missing file taken for an unreadable one
LoadRaisesWhenAbsent(file) == file.state \in {"absent", "empty", "partial"}

\* json.load raises on a file that holds no whole document
LoadRaises(file) == file.state \in {"empty", "partial"}

LoadExisting(file) == IF file.state = "complete" THEN file.doc ELSE <<>>

\* existing.get('stock_verdicts', {})
ExistingVerdicts(existing) ==
    IF "stock_verdicts" \in DOMAIN existing THEN existing.stock_verdicts ELSE <<>>

(***************************************************************************)
(* _consolidate as a whole: the portfolio dict and the symbols it prints   *)
(* as new, from the Config, the results, the file names, the dict read by  *)
(* _load_existing and the time datetime.now() returns.                     *)
(***************************************************************************)
\* SourceFiles kept in a list that outlives the call
SourceFilesAccumulated(files) ==
    (IF prev # <<>> THEN prev.parsed_files ELSE <<>>) \o files

\* line 264: 'source_files': parsed_files
SourceFiles(files) == files

ConsolidateDict(cfg, rs, files, existing, t) ==
    LET consolidated_stocks == ConsolidatedStocks(rs)
        all_mfs == AllMfs(rs)
        us_holdings == USHoldings(rs)
        nps_holdings == NpsHoldings(rs)
        epfo_holdings == EpfoHoldings(rs)
        verdicts == OverlayVerdicts(ExistingVerdicts(existing), cfg.verdicts)
    IN  [portfolio |->
            [metadata |-> [generated_at |-> t,
                           source_files |-> SourceFiles(files),
                           stock_count |-> Cardinality(DOMAIN consolidated_stocks),
                           mf_count |-> Len(all_mfs),
                           us_count |-> Cardinality(DOMAIN us_holdings),
                           nps_count |-> Len(nps_holdings),
                           epfo_count |-> Len(epfo_holdings)],
             stocks |-> consolidated_stocks,
             stock_verdicts |-> WithDefaultVerdicts(verdicts, consolidated_stocks),
             yahoo_map |-> YahooMap(consolidated_stocks),
             mutual_funds |-> all_mfs,
             us_holdings |-> us_holdings,
             nps_holdings |-> nps_holdings,
             epfo_holdings |-> epfo_holdings,
             non_equity |-> cfg.non_equity],
         new_stocks |-> NewStocks(verdicts, consolidated_stocks)]

(***************************************************************************)
(* The inputs: statement rows, statement files, directories, config.yaml.  *)
(***************************************************************************)
TCS == <<"T", "C", "S">>
INFY == <<"I", "N", "F", "Y">>

ZerodhaRow(symbol, qty, avg_price, closing_price) ==
    [symbol |-> symbol, isin |-> <<>>, sector |-> "", qty |-> qty,
     avg_price |-> avg_price, closing_price |-> closing_price]

ZerodhaRows ==
    {ZerodhaRow(TCS, Num(10), Num(250000), Num(280000)),
     ZerodhaRow(INFY, Num(-5), Num(100000), Num(110000)),
     ZerodhaRow(INFY, Empty, Num(100000), Empty),
     ZerodhaRow(TCS, Junk, Num(250000), Num(280000))}

DhanRow(symbol, qty, avg_price, closing_price, cur_value) ==
    [symbol |-> symbol, isin |-> <<>>, qty |-> qty, avg_price |-> avg_price,
     closing_price |-> closing_price, cur_value |-> cur_value]

DhanRows ==
    {DhanRow(<<"t", "c", "s", "-", "E", "Q">>, NumStr(5), Sep(260000), NumStr(280000), Empty),
     DhanRow(<<"N", "S", "E", "-", "I", "N", "F", "Y">>, NumStr(3), NumStr(100000), Empty, Sep(330000)),
     DhanRow(TCS, Junk, NumStr(250000), NumStr(280000), Empty)}

MFRow(name, invested, current, xirr) ==
    [name |-> name, amc |-> "", category |-> "Equity", sub_category |-> "",
     folio |-> "", source |-> "", units |-> Empty, invested |-> invested,
     current |-> current, xirr |-> xirr]

MFRows ==
    {MFRow("Axis Bluechip", Num(10000), Num(12000), Num(1000)),
     MFRow("Axis Bluechip", Num(20000), Num(21000), Num(1600)),
     MFRow("Axis Bluechip", Num(20000), Num(20000), Num(1100)),
     MFRow("HDFC Flexi Cap", Empty, Num(500), Num(500))}

SeqsOfLen(S, k) == [1..k -> S]

\* The files of one adapter whose rows and defects number k.
XlsxFiles(name, Rows, k) ==
    IF k = 0 THEN {NoFile}
    ELSE {StatementFile(name, 1, TRUE, "ok", rows, FALSE) : rows \in SeqsOfLen(Rows, k)}
         \cup (IF k # 1 THEN {}
               ELSE {StatementFile(name, 1, FALSE, "none", <<>>, FALSE),
                     StatementFile(name, 1, TRUE, "none", <<>>, FALSE),
                     StatementFile(name, 1, TRUE, "nosym", <<>>, FALSE),
                     StatementFile(name, 1, TRUE, "ok", <<>>, FALSE)})

CsvFiles(name, Rows, k) ==
    IF k = 0 THEN {NoFile}
    ELSE {StatementFile(name, 1, TRUE, "ok", rows, FALSE) : rows \in SeqsOfLen(Rows, k)}
         \cup {StatementFile(name, 1, TRUE, "ok", rows, TRUE) : rows \in SeqsOfLen(Rows, k - 1)}
         \cup (IF k # 1 THEN {}
               ELSE {StatementFile(name, 1, FALSE, "none", <<>>, FALSE),
                     StatementFile(name, 1, TRUE, "none", <<>>, FALSE),
                     StatementFile(name, 1, TRUE, "nosym", <<>>, FALSE),
                     StatementFile(name, 1, TRUE, "ok", <<>>, FALSE)})

ZerodhaFiles(k) == XlsxFiles(<<"Z", "e", "r", "o", "d", "h", "a", "_", "h", "o", "l", "d", "i", "n", "g", "s", ".", "x", "l", "s", "x">>, ZerodhaRows, k)
MutualFundFiles(k) == XlsxFiles(<<"M", "u", "t", "u", "a", "l", "F", "u", "n", "d", "s", "_", "c", "a", "s", ".", "x", "l", "s", "x">>, MFRows, k)
DhanFiles(k) ==
    CsvFiles(<<"d", "h", "a", "n", "_", "h", "o", "l", "d", "i", "n", "g", "s", ".", "c", "s", "v">>, DhanRows, k)
        \cup XlsxFiles(<<"d", "h", "a", "n", "_", "h", "o", "l", "d", "i", "n", "g", "s", ".", "x", "l", "s", "x">>, DhanRows, k)

\* A directory listing: the files there are, in the order glob lists them.
Dir(files) == SelectSeq(files, LAMBDA f : f # NoFile)

\* The statements directories whose files hold at most w rows and defects.
Directories(w) ==
    UNION {
        {Dir(<<z, m, d>>) :
            z \in ZerodhaFiles(k[1]), m \in MutualFundFiles(k[2]), d \in DhanFiles(k[3])}
        : k \in {t \in (0..w) \X (0..w) \X (0..w) : t[1] + t[2] + t[3] <= w}}

(***************************************************************************)
(* Inputs of SpecAdapter: a directory with one statement of one adapter.   *)
(***************************************************************************)
MaxAdapterRows == 1

RELIANCE == <<"R", "E", "L", "I", "A", "N", "C", "E">>
INEOSSTYRO == <<"I", "N", "E", "O", "S", "S", "T", "Y", "R", "O">>
MSFT == <<"M", "S", "F", "T">>

TabularRows ==
    {DhanRow(<<"N", "S", "E", ":", "R", "E", "L", "I", "A", "N", "C", "E">>, NumStr(10), NumStr(250000), NumStr(260000), Empty),
     DhanRow(<<"T", "A", "T", "A", "P", "O", "W", "E", "R", "_", "E", "Q">>, NumStr(4), Sep(40000), NumStr(41000), Sep(170000)),
     DhanRow(<<"R", "A", "J", "E", "S", "H", "E", "X", "P", "O", "-", "Z">>, Num(2), Num(5000), Num(6000), Num(12000)),
     DhanRow(<<"E", "M", "B", "A", "S", "S", "Y", "-", "R", "R">>, Num(3), NumStr(30000), Empty, NumStr(95000)),
     DhanRow(<<" ", "i", "n", "f", "y", " ">>, Junk, NumStr(100000), NumStr(110000), Empty),
     DhanRow(INFY, NumStr(-5), NumStr(100000), NumStr(110000), Empty),
     DhanRow(INEOSSTYRO, Num(1), Empty, Num(70000), Empty)}

ZerodhaAdapterRows ==
    ZerodhaRows
        \cup {ZerodhaRow(<<"n", "s", "e", ":", "r", "e", "l", "i", "a", "n", "c", "e">>, Num(10), Num(250000), Num(260000)),
              ZerodhaRow(INEOSSTYRO, Num(1), Num(65000), Num(70000)),
              ZerodhaRow(<<"E", "M", "B", "A", "S", "S", "Y", "-", "R", "R">>, Num(3), Num(30000), Num(31000))}

GrowwRow(name, isin, qty, avg_price, invested, closing_price, closing_value) ==
    [name |-> name, isin |-> isin, qty |-> qty, avg_price |-> avg_price,
     invested |-> invested, closing_price |-> closing_price,
     closing_value |-> closing_value]

GrowwRows ==
    {GrowwRow(<<"H", "D", "F", "C", " ", "A", "s", "s", "e", "t", " ", "M", "a", "n", "a", "g", "e", "m", "e", "n", "t", " ", "C", "o", "m", "p", "a", "n", "y", " ", "L", "i", "m", "i", "t", "e", "d">>, <<"I", "N", "E", "1", "2", "7", "D", "0", "1", "0", "2", "5">>,
              Num(2), Num(400000), Num(800000), Num(410000), Num(820000)),
     GrowwRow(<<"T", "a", "t", "a", " ", "C", "o", "n", "s", "u", "l", "t", "a", "n", "c", "y", " ", "S", "e", "r", "v", "i", "c", "e", "s", " ", "L", "i", "m", "i", "t", "e", "d">>, <<"I", "N", "E", "4", "6", "7", "B", "0", "1", "0", "2", "9">>,
              Num(10), Num(250000), Num(2500000), Num(280000), Num(2800000)),
     GrowwRow(<<"E", "m", "b", "a", "s", "s", "y", " ", "O", "f", "f", "i", "c", "e", " ", "P", "a", "r", "k", "s", " ", "R", "E", "I", "T">>, <<"I", "N", "E", "0", "4", "1", "0", "2", "5", "0", "1", "1">>,
              Num(3), Num(30000), Num(90000), Num(31000), Empty),
     GrowwRow(<<"H", "D", "F", "C", " ", "A", "s", "s", "e", "t", " ", "M", "a", "n", "a", "g", "e", "m", "e", "n", "t", " ", "C", "o", "m", "p", "a", "n", "y", " ", "L", "i", "m", "i", "t", "e", "d">>, <<>>,
              Num(2), Num(400000), Num(800000), Num(410000), Num(820000)),
     GrowwRow(<<"I", "n", "e", "o", "s", " ", "S", "t", "y", "r", "o", "l", "u", "t", "i", "o", "n", " ", "I", "n", "d", "i", "a", " ", "L", "i", "m", "i", "t", "e", "d">>, <<>>,
              Num(1), Num(65000), Num(65000), Num(70000), Num(70000)),
     GrowwRow(<<"I", "n", "f", "o", "s", "y", "s", " ", "L", "i", "m", "i", "t", "e", "d">>, <<>>,
              Num(0), Num(100000), Empty, Num(110000), Empty),
     GrowwRow(<<"I", "n", "f", "o", "s", "y", "s", " ", "L", "i", "m", "i", "t", "e", "d">>, <<>>,
              NumStr(5), Sep(100000), NumStr(500000), NumStr(110000), NumStr(550000))}

StockPlanText(common_symbol, symbol_match, shares, price, value) ==
    [common_symbol |-> common_symbol, symbol_match |-> symbol_match,
     shares |-> shares, price |-> price, value |-> value]

StockPlanTexts ==
    {StockPlanText(MSFT, <<>>, NumStr(12), NumStr(41000), Sep(492000)),
     StockPlanText(MSFT, <<>>, NumStr(12), NumStr(41000), Empty),
     StockPlanText(MSFT, <<>>, NumStr(12), Empty, Empty),
     StockPlanText(MSFT, <<>>, NumStr(0), NumStr(41000), Empty),
     StockPlanText(MSFT, <<>>, Empty, NumStr(41000), Sep(492000)),
     StockPlanText(MSFT, <<>>, Junk, NumStr(41000), Sep(492000)),
     StockPlanText(<<>>, <<>>, NumStr(12), NumStr(41000), Sep(492000)),
     StockPlanText(<<>>, <<"e", "s", "p", "p">>, NumStr(12), NumStr(41000), Sep(492000))}

NPSText(long, class_matches, total_matches, contribution, nav, units) ==
    [long |-> long, class_matches |-> class_matches, total_matches |-> total_matches,
     contribution |-> contribution, nav |-> nav, units |-> units]

NPSClassMatch(tier, asset_class, amount) ==
    [tier |-> tier, asset_class |-> asset_class, amount |-> amount]

NPSTexts ==
    {NPSText(FALSE, <<>>, <<>>, 0, 0, 0),
     NPSText(TRUE, <<>>, <<>>, 0, 0, 0),
     NPSText(TRUE, <<NPSClassMatch("Tier I", "E", Sep(12000000)),
                     NPSClassMatch("Tier I", "C", NumStr(50))>>,
             <<Sep(20000000)>>, 60000000, 4512, 2000),
     NPSText(TRUE, <<NPSClassMatch("Tier I", "G", NumStr(2024))>>,
             <<NumStr(50000), Sep(20000000)>>, 0, 0, 0),
     NPSText(TRUE, <<>>, <<NumStr(0), Junk>>, 60000000, 0, 0)}

EPFOText(long, closing, employee, employer, pension, amount_row, interest) ==
    [long |-> long, closing |-> closing, employee |-> employee,
     employer |-> employer, pension |-> pension, amount_row |-> amount_row,
     interest |-> interest]

EPFOTexts ==
    {EPFOText(FALSE, Empty, Empty, Empty, Empty, <<>>, Empty),
     EPFOText(TRUE, Empty, Empty, Empty, Empty, <<>>, Empty),
     EPFOText(TRUE, Sep(50000000), Sep(30000000), Sep(15000000), Sep(5000000), <<>>, Sep(3000000)),
     EPFOText(TRUE, Empty, Sep(30000000), Sep(15000000), Empty, <<>>, Empty),
     EPFOText(TRUE, NumStr(0), Empty, Sep(15000000), Empty,
              <<Sep(30000000), Sep(15000000), Sep(5000000)>>, Empty),
     EPFOText(TRUE, Empty, Empty, Empty, Empty,
              <<NumStr(2024), NumStr(3), NumStr(31)>>, Junk)}

PdfFiles(name, Texts) ==
    {PdfFile(name, 1, TRUE, text) : text \in Texts} \cup {PdfFile(name, 1, FALSE, <<>>)}

TabularFiles(k) ==
    CsvFiles(<<"A", "n", "g", "e", "l", "_", "h", "o", "l", "d", "i", "n", "g", "s", ".", "c", "s", "v">>, TabularRows, k)
        \cup XlsxFiles(<<"A", "n", "g", "e", "l", "_", "h", "o", "l", "d", "i", "n", "g", "s", ".", "x", "l", "s", "x">>, TabularRows, k)
        \cup CsvFiles(<<"U", "p", "s", "t", "o", "x", "_", "h", "o", "l", "d", "i", "n", "g", "s", ".", "c", "s", "v">>, TabularRows, k)
        \cup XlsxFiles(<<"U", "p", "s", "t", "o", "x", "_", "h", "o", "l", "d", "i", "n", "g", "s", ".", "x", "l", "s", "x">>, TabularRows, k)
        \cup CsvFiles(<<"I", "C", "I", "C", "I", "_", "h", "o", "l", "d", "i", "n", "g", "s", ".", "c", "s", "v">>, TabularRows, k)
        \cup XlsxFiles(<<"I", "C", "I", "C", "I", "_", "h", "o", "l", "d", "i", "n", "g", "s", ".", "x", "l", "s", "x">>, TabularRows, k)
        \cup CsvFiles(<<"H", "D", "F", "C", "_", "h", "o", "l", "d", "i", "n", "g", "s", ".", "c", "s", "v">>, TabularRows, k)
        \cup XlsxFiles(<<"H", "D", "F", "C", "_", "h", "o", "l", "d", "i", "n", "g", "s", ".", "x", "l", "s", "x">>, TabularRows, k)
        \cup CsvFiles(<<"K", "o", "t", "a", "k", "_", "h", "o", "l", "d", "i", "n", "g", "s", ".", "c", "s", "v">>, TabularRows, k)
        \cup XlsxFiles(<<"K", "o", "t", "a", "k", "_", "h", "o", "l", "d", "i", "n", "g", "s", ".", "x", "l", "s", "x">>, TabularRows, k)
        \cup CsvFiles(<<"5", "p", "a", "i", "s", "a", "_", "h", "o", "l", "d", "i", "n", "g", "s", ".", "c", "s", "v">>, TabularRows, k)
        \cup XlsxFiles(<<"5", "p", "a", "i", "s", "a", "_", "h", "o", "l", "d", "i", "n", "g", "s", ".", "x", "l", "s", "x">>, TabularRows, k)

\* Passbooks exported as a workbook: the rows below the header.
EPFORow(employee, employer, pension, total, interest) ==
    [employee |-> employee, employer |-> employer, pension |-> pension,
     total |-> total, interest |-> interest]

EPFORows ==
    {EPFORow(Num(10000), Num(10000), Num(5000), Num(25000), Num(800)),
     EPFORow(Num(10000), Num(10000), Empty, Empty, Empty),
     EPFORow(Empty, Empty, Empty, Empty, Empty)}

EPFOWorkbooks(k) ==
    LET name == <<"E", "P", "F", "O", "_", "p", "a", "s", "s", "b", "o", "o", "k", ".", "x", "l", "s", "x">>
    IN  XlsxFiles(name, EPFORows, k)
            \cup {StatementFile(name, 1, TRUE, "ok", rows, TRUE) : rows \in SeqsOfLen(EPFORows, k - 1)}

\* Dhan rows whose symbol carries the exchange code, with tickers of two,
\* three and more characters.
DhanAdapterRows ==
    DhanRows
        \cup {DhanRow(<<"N", "S", "E", "-", "L", "T">>, NumStr(4), NumStr(350000), NumStr(360000), Empty),
              DhanRow(<<"B", "S", "E", "-", "I", "T", "C">>, NumStr(20), NumStr(40000), NumStr(42000), Empty)}

DhanAdapterFiles(k) ==
    CsvFiles(<<"d", "h", "a", "n", "_", "h", "o", "l", "d", "i", "n", "g", "s", ".", "c", "s", "v">>, DhanAdapterRows, k)
        \cup XlsxFiles(<<"d", "h", "a", "n", "_", "h", "o", "l", "d", "i", "n", "g", "s", ".", "x", "l", "s", "x">>, DhanAdapterRows, k)

\* The statements of every adapter with k rows (a PDF statement counts 1).
AdapterFiles(k) ==
    XlsxFiles(<<"G", "r", "o", "w", "w", "_", "h", "o", "l", "d", "i", "n", "g", "s", ".", "x", "l", "s", "x">>, GrowwRows, k)
        \cup XlsxFiles(<<"Z", "e", "r", "o", "d", "h", "a", "_", "h", "o", "l", "d", "i", "n", "g", "s", ".", "x", "l", "s", "x">>, ZerodhaAdapterRows, k)
        \cup MutualFundFiles(k)
        \cup DhanAdapterFiles(k)
        \cup TabularFiles(k)
        \cup EPFOWorkbooks(k)
        \cup (IF k # 1 THEN {}
              ELSE PdfFiles(<<"F", "i", "d", "e", "l", "i", "t", "y", "_", "e", "s", "p", "p", ".", "p", "d", "f">>, StockPlanTexts)
                   \cup PdfFiles(<<"M", "S", "_", "s", "t", "o", "c", "k", "p", "l", "a", "n", ".", "p", "d", "f">>, StockPlanTexts)
                   \cup PdfFiles(<<"N", "P", "S", "_", "s", "t", "a", "t", "e", "m", "e", "n", "t", ".", "p", "d", "f">>, NPSTexts)
                   \cup PdfFiles(<<"E", "P", "F", "O", "_", "p", "a", "s", "s", "b", "o", "o", "k", ".", "p", "d", "f">>, EPFOTexts))

AdapterDirectories(n) == UNION {{<<file>> : file \in AdapterFiles(k)} : k \in 1..n}

AllEnabled == [broker \in Brokers |-> [enabled |-> TRUE]]

(***************************************************************************)
(* Inputs of SpecFind: a directory with up to MaxFindFiles files, several  *)
(* of them exports of one broker under different names, with modification  *)
(* times up to MaxMtime.                                                   *)
(***************************************************************************)
MaxFindFiles == 2
MaxMtime == 2

FindNames ==
    {<<"Z", "e", "r", "o", "d", "h", "a", "_", "2", "0", "2", "3", ".", "x", "l", "s", "x">>,
     <<"z", "e", "r", "o", "d", "h", "a", "_", "2", "0", "2", "4", ".", "x", "l", "s", "x">>,
     <<"k", "i", "t", "e", "_", "2", "0", "2", "5", ".", "x", "l", "s", "x">>,
     <<"Z", "e", "r", "o", "d", "h", "a", "_", "2", "0", "2", "4", ".", "c", "s", "v">>,
     <<"h", "o", "l", "d", "i", "n", "g", "s", ".", "x", "l", "s", "x">>}

FindFiles ==
    {StatementFile(name, mtime, TRUE, "ok", <<row>>, FALSE) :
        name \in FindNames, mtime \in 1..MaxMtime,
        row \in {ZerodhaRow(TCS, Num(10), Num(250000), Num(280000)),
                 ZerodhaRow(TCS, Junk, Num(250000), Num(280000))}}

\* Listings of at most n files with different names
FindDirectories(n) ==
    UNION {{listing \in SeqsOfLen(FindFiles, k) :
               \A i, j \in 1..k : i # j => listing[i].name # listing[j].name}
           : k \in 0..n}

BuyVerdict ==
    [verdict |-> "BUY", risk |-> "High", sector |-> "IT",
     pe |-> 28, roe |-> 45, roce |-> 55,
     target_1m |-> 400000, target_1y |-> 450000, target_5y |-> 700000]

ConfigYaml(brokers, verdicts) == [brokers |-> brokers, verdicts |-> verdicts]

DhanEnabled == [dhan |-> [enabled |-> TRUE]]
DhanOnly == [dhan |-> [enabled |-> TRUE], zerodha |-> [enabled |-> FALSE]]

ConfigYamls ==
    {ConfigYaml(b, v) : b \in {<<>>, DhanEnabled, DhanOnly},
                        v \in {<<>>, TCS :> BuyVerdict}}

(***************************************************************************)
(* The state before the first run.                                         *)
(***************************************************************************)
NoPortfolio == <<>>
NoPrev == <<>>

NoConfig == <<>>

ProcessInit ==
    /\ pc = "idle"
    /\ config = NoConfig
    /\ idx = 0
    /\ results = <<>>
    /\ parsed_files = <<>>
    /\ portfolio = NoPortfolio
    /\ new_stocks = {}
    /\ disk = NoSnapshot
    /\ defaults = DEFAULTS
    /\ prev = NoPrev

\* The ways the process ends: save_portfolio returned, an exception left
\* parser.parse, _load_existing or save_portfolio, or the process was killed.
Ended == {"saved", "raised_parse", "raised_load", "raised_save", "crashed"}

ProcessMemoryGone ==
    /\ config' = NoConfig
    /\ idx' = 0
    /\ results' = <<>>
    /\ parsed_files' = <<>>
    /\ portfolio' = NoPortfolio
    /\ new_stocks' = {}
    /\ defaults' = DEFAULTS

(***************************************************************************)
(* cmd_parse up to the loop of parse_all_statements: Config() reads        *)
(* config.yaml, results and parsed_files start empty.                      *)
(***************************************************************************)
\* lines 78-80: the registry entry the loop body runs for next, after entry
\* i: entries of disabled brokers are passed over by `continue`
NextEnabled(cfg, i) ==
    IF \E j \in (i + 1)..Len(PARSER_REGISTRY) : IsBrokerEnabled(cfg, PARSER_REGISTRY[j])
    THEN CHOOSE j \in (i + 1)..Len(PARSER_REGISTRY) :
            /\ IsBrokerEnabled(cfg, PARSER_REGISTRY[j])
            /\ \A k \in (i + 1)..(j - 1) : ~IsBrokerEnabled(cfg, PARSER_REGISTRY[k])
    ELSE Len(PARSER_REGISTRY) + 1

StartParse ==
    /\ pc = "idle"
    /\ pc' = "parsing"
    /\ config' = Config(config_yaml)
    /\ defaults' = DefaultsAfterConfig(defaults, config_yaml)
    /\ idx' = NextEnabled(Config(config_yaml), 0)
    /\ results' = <<>>
    /\ parsed_files' = <<>>
    /\ portfolio' = NoPortfolio
    /\ new_stocks' = {}
    /\ UNCHANGED <<statements, config_yaml, disk, prev>>

\* HasErrors letting a result with records through
HasErrorsAndNoRecords(result) == result.errors # <<>> /\ result.stocks = <<>>

\* line 92: if result.errors
HasErrors(result) == result.errors # <<>>

(***************************************************************************)
(* parse_all_statements, lines 78-109: one iteration of the registry loop. *)
(***************************************************************************)
ParseBroker ==
    /\ pc = "parsing"
    /\ idx <= Len(PARSER_REGISTRY)
    /\ LET broker_key == PARSER_REGISTRY[idx]
           file == FindLatestFile(broker_key, statements)
           call == Parse(broker_key, file)
       IN  IF file = NoFile
           THEN /\ idx' = NextEnabled(config, idx)
                /\ UNCHANGED <<pc, results, parsed_files>>
           ELSE IF call.raised
           THEN /\ pc' = "raised_parse"
                /\ UNCHANGED <<idx, results, parsed_files>>
           ELSE IF HasErrors(call.result)
           THEN /\ idx' = NextEnabled(config, idx)
                /\ UNCHANGED <<pc, results, parsed_files>>
           ELSE /\ idx' = NextEnabled(config, idx)
                /\ results' = Append(results, call.result)
                /\ parsed_files' = Append(parsed_files, file.name)
                /\ pc' = pc
    /\ UNCHANGED <<statements, config_yaml, config, portfolio, new_stocks, disk, prev>>
    /\ UNCHANGED defaults

\* The call about to be made has the Config, results and file names of the
\* call p records.
SameInputs(p) ==
    /\ p # NoPrev
    /\ p.config = config
    /\ p.results = results
    /\ p.parsed_files = parsed_files

(***************************************************************************)
(* parse_all_statements line 112: _consolidate.  datetime.now() returns    *)
(* the wall clock's time t.                                                *)
(***************************************************************************)
Consolidate ==
    /\ pc = "parsing"
    /\ idx > Len(PARSER_REGISTRY)
    /\ IF LoadRaises(disk)
       THEN /\ pc' = "raised_load"
            /\ UNCHANGED <<portfolio, new_stocks, prev>>
       ELSE \E t \in 0..MaxClock :
               LET out == ConsolidateDict(config, results, parsed_files,
                                          LoadExisting(disk), t)
               IN  /\ portfolio' = out.portfolio
                   /\ new_stocks' = out.new_stocks
                   /\ prev' = IF disk.state = "absent"
                              THEN [config |-> config, results |-> results,
                                    parsed_files |-> parsed_files,
                                    portfolio |-> out.portfolio,
                                    before |-> IF SameInputs(prev) THEN prev.portfolio
                                               ELSE NoPortfolio]
                              ELSE NoPrev
                   /\ pc' = "consolidated"
    /\ UNCHANGED <<statements, config_yaml, config, idx, results, parsed_files, disk>>
    /\ UNCHANGED defaults

(***************************************************************************)
(* cli.py line 242: cmd_parse calls save_portfolio(result, config); the     *)
(* Config is taken as output_path and os.path.dirname raises TypeError     *)
(* before any file is opened.                                              *)
(***************************************************************************)
CmdParseSave ==
    /\ pc = "consolidated"
    /\ pc' = "raised_save"
    /\ UNCHANGED <<statements, config_yaml, config, idx, results, parsed_files,
                   portfolio, new_stocks, disk, prev>>
    /\ UNCHANGED defaults

(***************************************************************************)
(* save_portfolio(portfolio) with the default output_path, lines 315-326,  *)
(* in the steps the file goes through: open(..., 'w') truncates it,        *)
(* json.dump writes the document through the file's buffer (a flush of a   *)
(* full buffer leaves the beginning of the document in the file), leaving  *)
(* the with block flushes the rest and closes it.                          *)
(***************************************************************************)
SaveOpen ==
    /\ pc = "consolidated"
    /\ pc' = "saving"
    /\ disk' = SnapshotFile("empty", <<>>)
    /\ prev' = NoPrev
    /\ UNCHANGED <<statements, config_yaml, config, idx, results, parsed_files,
                   portfolio, new_stocks>>
    /\ UNCHANGED defaults

SaveFlush ==
    /\ pc = "saving"
    /\ disk.state = "empty"
    /\ disk' = SnapshotFile("partial", <<>>)
    /\ UNCHANGED <<statements, config_yaml, pc, config, idx, results, parsed_files,
                   portfolio, new_stocks, prev>>
    /\ UNCHANGED defaults

SaveClose ==
    /\ pc = "saving"
    /\ pc' = "saved"
    /\ disk' = SnapshotFile("complete", portfolio)
    /\ UNCHANGED <<statements, config_yaml, config, idx, results, parsed_files,
                   portfolio, new_stocks, prev>>
    /\ UNCHANGED defaults

\* The process is killed (power loss, SIGKILL) wherever it is.
Crash ==
    /\ pc \in {"parsing", "consolidated", "saving"}
    /\ pc' = "crashed"
    /\ ProcessMemoryGone
    /\ UNCHANGED <<statements, config_yaml, disk, prev>>

\* The ended process is gone, and its memory with it.
Exit ==
    /\ pc \in Ended
    /\ pc' = "idle"
    /\ ProcessMemoryGone
    /\ UNCHANGED <<statements, config_yaml, disk, prev>>

(***************************************************************************)
(* The user, between runs: new statement exports, an edited config.yaml.   *)
(***************************************************************************)
StoreDirectories ==
    {Dir(<<z, m, d>>) :
        z \in {NoFile,
               StatementFile(<<"Z", "e", "r", "o", "d", "h", "a", "_", "h", "o", "l", "d", "i", "n", "g", "s", ".", "x", "l", "s", "x">>, 1, TRUE, "ok",
                   <<ZerodhaRow(TCS, Num(10), Num(250000), Num(280000))>>, FALSE)},
        m \in {NoFile,
               StatementFile(<<"M", "u", "t", "u", "a", "l", "F", "u", "n", "d", "s", "_", "c", "a", "s", ".", "x", "l", "s", "x">>, 1, TRUE, "ok",
                   <<MFRow("Axis Bluechip", Num(10000), Num(12000), Num(1000))>>, FALSE)},
        d \in {NoFile,
               StatementFile(<<"d", "h", "a", "n", "_", "h", "o", "l", "d", "i", "n", "g", "s", ".", "c", "s", "v">>, 1, TRUE, "ok",
                   <<DhanRow(<<"t", "c", "s", "-", "E", "Q">>, NumStr(5), Sep(260000),
                             NumStr(280000), Empty)>>, FALSE),
               StatementFile(<<"d", "h", "a", "n", "_", "h", "o", "l", "d", "i", "n", "g", "s", ".", "c", "s", "v">>, 1, TRUE, "ok",
                   <<DhanRow(<<"N", "S", "E", "-", "I", "N", "F", "Y">>, NumStr(3),
                             NumStr(100000), Empty, Sep(330000))>>, FALSE)}}

ExportStatements ==
    /\ pc = "idle"
    /\ statements' \in StoreDirectories
    /\ statements' # statements
    /\ UNCHANGED <<config_yaml, pc, config, idx, results, parsed_files,
                   portfolio, new_stocks, disk, prev>>
    /\ UNCHANGED defaults

EditConfig ==
    /\ pc = "idle"
    /\ config_yaml' \in ConfigYamls
    /\ config_yaml' # config_yaml
    /\ UNCHANGED <<statements, pc, config, idx, results, parsed_files,
                   portfolio, new_stocks, disk, prev>>
    /\ UNCHANGED defaults

(***************************************************************************)
(* Spec: repeated runs of the parse command over the snapshot file.        *)
(***************************************************************************)
Init ==
    /\ statements \in StoreDirectories
    /\ config_yaml \in ConfigYamls
    /\ ProcessInit

Next ==
    \/ StartParse
    \/ ParseBroker
    \/ Consolidate
    \/ CmdParseSave
    \/ SaveOpen
    \/ SaveFlush
    \/ SaveClose
    \/ Crash
    \/ Exit
    \/ ExportStatements
    \/ EditConfig

Spec == Init /\ [][Next]_vars

(***************************************************************************)
(* SpecLive: the parse command run again and again over one directory of   *)
(* statements with up to MaxLiveWeight rows and defects.  Once the         *)
(* statements are parsed the process runs on: _consolidate is executed,    *)
(* and so is each step of the save that follows it (the process can still  *)
(* be killed at any of them).                                              *)
(***************************************************************************)
MaxLiveWeight == 1

InitLive ==
    /\ statements \in Directories(MaxLiveWeight)
    /\ config_yaml = ConfigYaml(DhanEnabled, <<>>)
    /\ ProcessInit

NextLive ==
    \/ StartParse
    \/ ParseBroker
    \/ Consolidate
    \/ CmdParseSave
    \/ SaveOpen
    \/ SaveFlush
    \/ SaveClose
    \/ Crash
    \/ Exit

SpecLive ==
    /\ InitLive
    /\ [][NextLive]_vars
    /\ WF_vars(Consolidate)
    /\ WF_vars(CmdParseSave \/ SaveOpen \/ SaveFlush \/ SaveClose)

(***************************************************************************)
(* SpecParse: one directory of statements, with up to MaxDirWeight rows    *)
(* and defects, read by parse_all_statements.                              *)
(***************************************************************************)
InitParse ==
    /\ statements \in Directories(MaxDirWeight)
    /\ config_yaml = ConfigYaml(DhanEnabled, <<>>)
    /\ ProcessInit

NextParse ==
    \/ StartParse
    \/ ParseBroker
    \/ Consolidate
    \/ Exit

SpecParse == InitParse /\ [][NextParse]_vars

(***************************************************************************)
(* SpecAdapter: one statement of one adapter, with up to MaxAdapterRows    *)
(* rows, read by parse_all_statements with every broker enabled.           *)
(***************************************************************************)
InitAdapter ==
    /\ statements \in AdapterDirectories(MaxAdapterRows)
    /\ config_yaml = ConfigYaml(AllEnabled, <<>>)
    /\ ProcessInit

SpecAdapter == InitAdapter /\ [][NextParse]_vars

(***************************************************************************)
(* SpecFind: a directory with several files, read by parse_all_statements  *)
(* under the default configuration.                                        *)
(***************************************************************************)
InitFind ==
    /\ statements \in FindDirectories(MaxFindFiles)
    /\ config_yaml = ConfigYaml(<<>>, <<>>)
    /\ ProcessInit

SpecFind == InitFind /\ [][NextParse]_vars

(***************************************************************************)
(* SpecMerge: a directory where the same securities are held through       *)
(* several sources (Zerodha and Dhan for stocks, Fidelity and Morgan       *)
(* Stanley for US tickers), each statement with up to MaxAdapterRows rows, *)
(* read by parse_all_statements with every broker enabled.                 *)
(***************************************************************************)
MergeTexts ==
    {StockPlanText(MSFT, <<>>, NumStr(12), NumStr(41000), Sep(492000)),
     StockPlanText(MSFT, <<>>, NumStr(7), NumStr(40000), Empty)}

MergeDirectories(n) ==
    {Dir(<<z, d, f, m>>) :
        z \in UNION {ZerodhaFiles(k) : k \in 0..n},
        d \in UNION {XlsxFiles(<<"d", "h", "a", "n", "_", "h", "o", "l", "d", "i", "n", "g", "s", ".", "x", "l", "s", "x">>, DhanRows, k) : k \in 0..n},
        f \in {NoFile} \cup {PdfFile(<<"F", "i", "d", "e", "l", "i", "t", "y", "_", "e", "s", "p", "p", ".", "p", "d", "f">>, 1, TRUE, text) : text \in MergeTexts},
        m \in {NoFile} \cup {PdfFile(<<"M", "S", "_", "s", "t", "o", "c", "k", "p", "l", "a", "n", ".", "p", "d", "f">>, 1, TRUE, text) : text \in MergeTexts}}

InitMerge ==
    /\ statements \in MergeDirectories(MaxAdapterRows)
    /\ config_yaml = ConfigYaml(AllEnabled, <<>>)
    /\ ProcessInit

SpecMerge == InitMerge /\ [][NextParse]_vars

(***************************************************************************)
(* What the claims speak of, read off the state.                           *)
(***************************************************************************)
\* The adapter calls of the current directory: the brokers the loop reaches a
\* file for, and what parse does with the file.
LatestFile(broker) == FindLatestFile(broker, statements)

Invoked(broker) ==
    /\ config # NoConfig
    /\ IsBrokerEnabled(config, broker)
    /\ LatestFile(broker) # NoFile

Call(broker) == Parse(broker, LatestFile(broker))

\* The StockLots of the successful outcomes, and those of one symbol.
AllLots == Flatten([i \in 1..Len(results) |-> results[i].stocks])
LotsOf(sym) == SelectSeq(AllLots, LAMBDA lot : lot.symbol = sym)

\* The mutual-fund lots of the successful outcomes, as the statement lists
\* them (one per row), and those of one scheme.
MFLots ==
    IF \E i \in 1..Len(results) : results[i].broker_name = "MutualFunds"
    THEN LET rows == SelectSeq(LatestFile("mutual_funds").rows, MFKeepsRow)
         IN  [i \in 1..Len(rows) |-> MFRaw(rows[i])]
    ELSE <<>>
MFLotsOf(name) == SelectSeq(MFLots, LAMBDA mf : mf.name = name)
MFAggregatesOf(name) == SelectSeq(portfolio.mutual_funds, LAMBDA m : m.name = name)

\* The annotation map _consolidate read from the snapshot file (the file does
\* not change between _consolidate and save_portfolio).
StoredVerdicts == ExistingVerdicts(LoadExisting(disk))

Unstamped(p) == [p EXCEPT !.metadata.generated_at = 0]

OneLot(rs) == Len(rs) = 1 /\ Len(rs[1].stocks) = 1

(***************************************************************************)
(* C1: a failure inside one adapter never terminates the run of            *)
(* parse_all_statements, and the portfolio it returns holds the holdings   *)
(* of every broker whose file parsed cleanly.                              *)
(***************************************************************************)
C1_AdapterFailuresStayLocal ==
    /\ pc # "raised_parse"
    /\ pc = "consolidated" =>
         \A b \in Brokers :
            (Invoked(b) /\ ~Call(b).raised /\ Call(b).result.errors = <<>>) =>
               /\ \A lot \in Range(Call(b).result.stocks) :
                     /\ lot.symbol \in DOMAIN portfolio.stocks
                     /\ BrokerEntry(lot) \in Range(portfolio.stocks[lot.symbol].brokers)
               /\ \A mf \in Range(Call(b).result.mutual_funds) :
                     MFEntry(mf) \in Range(portfolio.mutual_funds)

(***************************************************************************)
(* C2: no record of an adapter whose ParseResult carries errors reaches    *)
(* the consolidated portfolio, and its file is not among source_files,     *)
(* even when the result holds records collected before the error.          *)
(***************************************************************************)
C2_ErroredResultExcluded ==
    pc = "consolidated" =>
        \A b \in Brokers :
            (Invoked(b) /\ ~Call(b).raised /\ Call(b).result.errors # <<>>) =>
               LET result == Call(b).result
               IN  /\ \A sym \in DOMAIN portfolio.stocks :
                         \A e \in Range(portfolio.stocks[sym].brokers) :
                            e.broker # result.broker_name
                   /\ \A mf \in Range(result.mutual_funds) :
                         MFEntry(mf) \notin Range(portfolio.mutual_funds)
                   /\ \A h \in Range(result.us_holdings) :
                         h.symbol \notin DOMAIN portfolio.us_holdings
                   /\ \A h \in Range(result.nps_holdings) :
                         h \notin Range(portfolio.nps_holdings)
                   /\ \A h \in Range(result.epfo_holdings) :
                         h \notin Range(portfolio.epfo_holdings)
                   /\ LatestFile(b).name \notin Range(portfolio.metadata.source_files)

C2_Witness ==
    /\ pc = "consolidated"
    /\ \E b \in Brokers :
          /\ Invoked(b) /\ ~Call(b).raised
          /\ Call(b).result.errors # <<>>
          /\ Call(b).result.stocks # <<>>
    /\ portfolio.stocks # <<>>

(***************************************************************************)
(* C3: a symbol that has a stored annotation, none in configuration, and   *)
(* is held in the run keeps the stored annotation in the new snapshot.     *)
(***************************************************************************)
C3_StoredVerdictKept ==
    pc = "consolidated" =>
        \A sym \in DOMAIN StoredVerdicts :
            (sym \notin DOMAIN config.verdicts /\ sym \in DOMAIN portfolio.stocks) =>
               /\ sym \in DOMAIN portfolio.stock_verdicts
               /\ portfolio.stock_verdicts[sym] = StoredVerdicts[sym]

C3_Witness ==
    /\ pc = "consolidated"
    /\ TCS \in DOMAIN StoredVerdicts
    /\ StoredVerdicts[TCS].verdict = "BUY"
    /\ TCS \notin DOMAIN config.verdicts
    /\ TCS \in DOMAIN portfolio.stocks
    /\ portfolio.stock_verdicts[TCS].verdict = "BUY"

(***************************************************************************)
(* C4: save_portfolio is atomic: once the snapshot file holds a complete   *)
(* snapshot, every step (a crash included) leaves in it the complete       *)
(* previous snapshot or the complete new one.                              *)
(***************************************************************************)
C4_SaveIsAtomic ==
    [][disk.state = "complete" =>
          /\ disk'.state = "complete"
          /\ disk'.doc \in {disk.doc, portfolio}]_vars

(***************************************************************************)
(* C5: per symbol, the aggregate's totals are the sums over the StockLots  *)
(* of that symbol in the successful outcomes, and its brokers list has one *)
(* entry per lot, with the lot's broker and figures.                       *)
(***************************************************************************)
C5_StockTotalsAreSums ==
    pc = "consolidated" =>
        /\ DOMAIN portfolio.stocks = {lot.symbol : lot \in Range(AllLots)}
        /\ \A sym \in DOMAIN portfolio.stocks :
              LET lots == LotsOf(sym)
                  data == portfolio.stocks[sym]
              IN  /\ data.total_qty = SumSeq([i \in 1..Len(lots) |-> lots[i].quantity])
                  /\ data.total_invested = SumSeq([i \in 1..Len(lots) |-> lots[i].invested])
                  /\ data.total_closing_value =
                        SumSeq([i \in 1..Len(lots) |-> lots[i].closing_value])
                  /\ Len(data.brokers) = Len(lots)
                  /\ \A i \in 1..Len(lots) :
                        /\ data.brokers[i].broker = lots[i].broker
                        /\ data.brokers[i].qty = lots[i].quantity
                        /\ data.brokers[i].avg_price = lots[i].avg_price
                        /\ data.brokers[i].invested = lots[i].invested
                        /\ data.brokers[i].closing_price = lots[i].closing_price
                        /\ data.brokers[i].closing_value = lots[i].closing_value

\* (10, 25000.00) from Zerodha and (5, 13000.00) from Dhan: 15 and 38000.00
C5_Witness ==
    /\ pc = "consolidated"
    /\ TCS \in DOMAIN portfolio.stocks
    /\ Len(portfolio.stocks[TCS].brokers) = 2
    /\ portfolio.stocks[TCS].brokers[1].broker = "Zerodha"
    /\ portfolio.stocks[TCS].brokers[2].broker = "Dhan"
    /\ portfolio.stocks[TCS].total_qty = 15
    /\ portfolio.stocks[TCS].total_invested = 3800000

(***************************************************************************)
(* C6: blended_avg_price is total_invested / total_qty rounded to 2        *)
(* decimals whenever total_qty is not 0, and 0 when total_qty is 0.        *)
(* (b is q rounded to the nearest 1/100 when |b * qty - invested| is at    *)
(* most |qty| / 2, in paise.)                                              *)
(***************************************************************************)
C6_BlendedIsQuotient ==
    pc = "consolidated" =>
        \A sym \in DOMAIN portfolio.stocks :
            LET data == portfolio.stocks[sym]
            IN  IF data.total_qty # 0
                THEN 2 * Abs(data.blended_avg_price * data.total_qty - data.total_invested)
                        <= Abs(data.total_qty)
                ELSE data.blended_avg_price = 0

(***************************************************************************)
(* C7 as claimed: for total quantity > 0, blended average cost times total *)
(* quantity is within 0.01 of total invested.                              *)
(***************************************************************************)
C7_WithinOnePaisa ==
    pc = "consolidated" =>
        \A sym \in DOMAIN portfolio.stocks :
            LET data == portfolio.stocks[sym]
            IN  data.total_qty > 0 =>
                  Abs(data.blended_avg_price * data.total_qty - data.total_invested) <= 1

(***************************************************************************)
(* C7 as amended: for total quantity > 0, blended average cost times total *)
(* quantity is within 0.005 x total quantity of total invested (the        *)
(* average is within half a paisa of invested / quantity).                 *)
(***************************************************************************)
C7_WithinHalfPaisaPerUnit ==
    pc = "consolidated" =>
        \A sym \in DOMAIN portfolio.stocks :
            LET data == portfolio.stocks[sym]
            IN  data.total_qty > 0 =>
                  2 * Abs(data.blended_avg_price * data.total_qty - data.total_invested)
                     <= data.total_qty

C7_Witness ==
    /\ pc = "consolidated"
    /\ \E sym \in DOMAIN portfolio.stocks :
          LET data == portfolio.stocks[sym]
          IN  /\ data.total_qty > 0
              /\ Abs(data.blended_avg_price * data.total_qty - data.total_invested) > 1

C10_NewSymbolsGetDefault ==
    pc = "consolidated" =>
        /\ \A sym \in DOMAIN portfolio.stocks :
              /\ sym \in DOMAIN portfolio.stock_verdicts
              /\ (sym \notin DOMAIN StoredVerdicts /\ sym \notin DOMAIN config.verdicts) =>
                    /\ portfolio.stock_verdicts[sym] =
                          [verdict |-> "HOLD", risk |-> "Medium", sector |-> "Other",
                           pe |-> 0, roe |-> 0, roce |-> 0,
                           target_1m |-> 0, target_1y |-> 0, target_5y |-> 0]
                    /\ sym \in new_stocks
        /\ \A sym \in new_stocks :
              /\ sym \in DOMAIN portfolio.stocks
              /\ sym \notin DOMAIN StoredVerdicts
              /\ sym \notin DOMAIN config.verdicts

C10_Witness ==
    /\ pc = "consolidated"
    /\ new_stocks = {INFY}
    /\ TCS \in DOMAIN portfolio.stocks
    /\ TCS \in DOMAIN StoredVerdicts
    /\ portfolio.stock_verdicts[INFY].verdict = "HOLD"


(***************************************************************************)
(* C11: a symbol annotated both in the prior snapshot and in configuration *)
(* has the configuration's entry in the new snapshot, held or not.         *)
(***************************************************************************)
C11_ConfigWinsOverStored ==
    pc = "consolidated" =>
        \A sym \in DOMAIN StoredVerdicts \cap DOMAIN config.verdicts :
            /\ sym \in DOMAIN portfolio.stock_verdicts
            /\ portfolio.stock_verdicts[sym] = config.verdicts[sym]

\* stored HOLD (the default of an earlier run), configured BUY, TCS not held
C11_Witness ==
    /\ pc = "consolidated"
    /\ TCS \in DOMAIN StoredVerdicts
    /\ TCS \in DOMAIN config.verdicts
    /\ StoredVerdicts[TCS].verdict = "HOLD"
    /\ config.verdicts[TCS].verdict = "BUY"
    /\ TCS \notin DOMAIN portfolio.stocks
    /\ portfolio.stock_verdicts[TCS].verdict = "BUY"

(***************************************************************************)
(* C12 as claimed: the annotation map never loses a symbol from one saved  *)
(* snapshot to the next, and the annotation stored for a symbol that is    *)
(* not held in the current run is carried into the new snapshot unchanged. *)
(***************************************************************************)
C12_UnheldAnnotationUnchanged ==
    /\ pc = "consolidated" =>
          \A sym \in DOMAIN StoredVerdicts :
              /\ sym \in DOMAIN portfolio.stock_verdicts
              /\ sym \notin DOMAIN portfolio.stocks =>
                    portfolio.stock_verdicts[sym] = StoredVerdicts[sym]
    /\ pc = "saved" => (disk.state = "complete" /\ disk.doc = portfolio)

(***************************************************************************)
(* C12 as amended: the annotation map never loses a symbol from one saved  *)
(* snapshot to the next, and the annotation stored for a symbol that is    *)
(* not held in the current run is carried into the new snapshot unchanged  *)
(* unless configuration has an entry for the symbol, which replaces it.    *)
(***************************************************************************)
C12_UnheldAnnotationKept ==
    /\ pc = "consolidated" =>
          \A sym \in DOMAIN StoredVerdicts :
              /\ sym \in DOMAIN portfolio.stock_verdicts
              /\ sym \notin DOMAIN portfolio.stocks =>
                    portfolio.stock_verdicts[sym] =
                        IF sym \in DOMAIN config.verdicts THEN config.verdicts[sym]
                        ELSE StoredVerdicts[sym]
    /\ pc = "saved" => (disk.state = "complete" /\ disk.doc = portfolio)

\* the second snapshot in a row that carries an annotation of INFY, not held
\* in the run that wrote it
C12_Witness ==
    /\ pc = "saved"
    /\ INFY \in DOMAIN disk.doc.stock_verdicts
    /\ INFY \notin DOMAIN disk.doc.stocks
    /\ TCS \in DOMAIN disk.doc.stocks


(***************************************************************************)
(* C13.  The snapshot's external-ticker map has an entry                   *)
(* symbol -> symbol + ".NS" for every consolidated stock symbol that is    *)
(* not an ISIN code and does not end in "-RR", and no other entry.  An     *)
(* ISIN code is twelve characters: two letters, nine letters or digits,    *)
(* one digit.                                                              *)
(***************************************************************************)
Digits == {"0", "1", "2", "3", "4", "5", "6", "7", "8", "9"}

IsIsin(s) ==
    /\ Len(s) = 12
    /\ \A i \in 1..2 : s[i] \in Range(Uppers)
    /\ \A i \in 3..11 : s[i] \in Range(Uppers) \cup Digits
    /\ s[12] \in Digits

C13_TickerMapCoversNonIsin ==
    pc = "consolidated" =>
        LET listed == {sym \in DOMAIN portfolio.stocks :
                          ~IsIsin(sym) /\ ~EndsWith(sym, <<"-", "R", "R">>)}
        IN  /\ DOMAIN portfolio.yahoo_map = listed
            /\ \A sym \in listed : portfolio.yahoo_map[sym] = sym \o <<".", "N", "S">>


(***************************************************************************)
(* C14.  Every StockLot a tabular adapter (Groww, Zerodha, Angel One,      *)
(* Upstox, ICICI Direct, HDFC Securities, Kotak, Dhan, 5paisa) returns has *)
(* a quantity greater than 0: rows with quantity <= 0 are dropped.         *)
(***************************************************************************)
C14_LotsArePositive ==
    \A i \in 1..Len(results) :
        \A j \in 1..Len(results[i].stocks) : results[i].stocks[j].quantity > 0


(***************************************************************************)
(* C15.  Symbol normalization is the same in every stock adapter: the raw  *)
(* symbol is uppercased, an "EXCHANGE:" prefix and a "_EQ" suffix are      *)
(* removed, and a trailing hyphenated suffix of at most two characters is  *)
(* removed unless it is "RR" (NSE:RELIANCE -> RELIANCE, TATAPOWER_EQ ->    *)
(* TATAPOWER, RAJESHEXPO-Z -> RAJESHEXPO, EMBASSY-RR unchanged), so each   *)
(* StockLot an adapter returns carries the canonical form of the symbol    *)
(* of one of the statement's rows.                                         *)
(***************************************************************************)
CanonicalSymbol(raw) ==
    LET upper == Upper(Strip(raw))
        unprefixed == IF Contains(upper, ":") THEN RSplitSuffix(upper, ":") ELSE upper
        unsuffixed == IF EndsWith(unprefixed, <<"_", "E", "Q">>)
                      THEN SubSeq(unprefixed, 1, Len(unprefixed) - 3)
                      ELSE unprefixed
    IN  NormalizeSymbol(unsuffixed)

\* The adapters whose statements carry a trading symbol
SymbolAdapters ==
    {"zerodha", "angel_one", "upstox", "icici_direct", "hdfc_securities",
     "kotak_securities", "dhan", "five_paisa"}

C15_SymbolsAreCanonical ==
    \A broker \in SymbolAdapters :
        (Invoked(broker) /\ ~Call(broker).raised) =>
            \A j \in 1..Len(Call(broker).result.stocks) :
                \E r \in 1..Len(LatestFile(broker).rows) :
                    Call(broker).result.stocks[j].symbol =
                        CanonicalSymbol(LatestFile(broker).rows[r].symbol)


(***************************************************************************)
(* C16.  In every tabular adapter a numeric cell (quantity, average cost,  *)
(* price, value, XIRR) that is empty or, after thousands separators and    *)
(* currency glyphs are stripped, not a number is read as 0: a statement    *)
(* with such a cell that opens, has its header and reads to the end never  *)
(* makes parse raise and never adds an entry to the outcome's errors.      *)
(***************************************************************************)
TabularAdapters == SymbolAdapters \cup {"groww", "mutual_funds"}

NumericFields ==
    {"qty", "avg_price", "closing_price", "cur_value", "invested",
     "closing_value", "units", "current", "xirr"}

HasUnreadableCell(row) ==
    \E field \in DOMAIN row \cap NumericFields : row[field].kind \in {"junk", "empty"}

C16_UnreadableCellsReadAsZero ==
    \A broker \in TabularAdapters :
        LET file == LatestFile(broker)
        IN  (/\ Invoked(broker)
             /\ file.readable /\ file.header = "ok" /\ ~file.torn
             /\ \E r \in 1..Len(file.rows) : HasUnreadableCell(file.rows[r]))
            => (~Call(broker).raised /\ Call(broker).result.errors = <<>>)


(***************************************************************************)
(* C17.  For every tabular adapter, in its spreadsheet and in its CSV      *)
(* path: when the statement has no header row, or no column under one of   *)
(* the adapter's symbol synonyms, parse returns an outcome with a          *)
(* non-empty error list and no records; never an empty, error-free one.    *)
(***************************************************************************)
C17_MissingHeaderIsReported ==
    \A broker \in TabularAdapters :
        LET file == LatestFile(broker)
        IN  (Invoked(broker) /\ file.readable /\ file.header \in {"none", "nosym"})
            => /\ ~Call(broker).raised
               /\ Call(broker).result.errors # <<>>
               /\ Call(broker).result.stocks = <<>>
               /\ Call(broker).result.mutual_funds = <<>>


(***************************************************************************)
(* C19.  For every StockLot a tabular adapter produces: invested is the    *)
(* statement's own invested or buy-value figure when the statement has     *)
(* one, and quantity times average cost otherwise; closing_value is the    *)
(* statement's current or market value when the statement supplies one,    *)
(* and quantity times last price otherwise.                                *)
(***************************************************************************)
Supplied(row, field) ==
    field \in DOMAIN row /\ row[field].kind \in {"num", "numstr", "sep"}

\* The rows of a statement the adapter turns into StockLots, in order
KeptRows(broker, file) ==
    SelectSeq(file.rows,
              LAMBDA row : CASE broker = "zerodha" -> ZerodhaKeepsRow(row)
                             [] broker = "groww" -> GrowwKeepsRow(row)
                             [] OTHER -> TabularKeepsRow(row))

C19_ValuesFollowStatement ==
    \A broker \in TabularAdapters \ {"mutual_funds"} :
        LET file == LatestFile(broker)
            stocks == Call(broker).result.stocks
            kept == KeptRows(broker, file)
        IN  (/\ Invoked(broker)
             /\ file.readable /\ file.header = "ok" /\ ~file.torn
             /\ ~Call(broker).raised)
            => /\ Len(stocks) = Len(kept)
               /\ \A i \in 1..Len(kept) :
                     /\ stocks[i].invested =
                            IF Supplied(kept[i], "invested") THEN kept[i].invested.v
                            ELSE stocks[i].quantity * stocks[i].avg_price
                     /\ stocks[i].closing_value =
                            IF Supplied(kept[i], "cur_value") THEN kept[i].cur_value.v
                            ELSE IF Supplied(kept[i], "closing_value")
                            THEN kept[i].closing_value.v
                            ELSE stocks[i].quantity * stocks[i].closing_price


(***************************************************************************)
(* C18.  For every text-extraction adapter (NPS, EPFO PDF, Fidelity,       *)
(* Morgan Stanley) and every extracted text, the outcome parse returns has *)
(* either at least one record, each with a positive value, or no record    *)
(* and a non-empty error list: never no record with no error, and never a  *)
(* holding whose balance or value is 0.                                    *)
(***************************************************************************)
TextAdapters == {"nps", "epfo", "fidelity", "morgan_stanley"}

\* The values of the records of an outcome of a text-extraction adapter
RecordValues(result) ==
    [i \in 1..Len(result.us_holdings) |-> result.us_holdings[i].value_usd]
        \o [i \in 1..Len(result.nps_holdings) |-> result.nps_holdings[i].current_value]
        \o [i \in 1..Len(result.epfo_holdings) |-> result.epfo_holdings[i].total_balance]

C18_RecordsOrErrors ==
    \A broker \in TextAdapters :
        (Invoked(broker) /\ ~Call(broker).raised) =>
            LET values == RecordValues(Call(broker).result)
            IN  \/ values # <<>> /\ \A i \in 1..Len(values) : values[i] > 0
                \/ values = <<>> /\ Call(broker).result.errors # <<>>


(***************************************************************************)
(* C20.  find_latest_file returns, among the files of the directory whose  *)
(* name matches one of the adapter's patterns, one with the greatest       *)
(* modification time, and no file when none matches; in that case the      *)
(* loop takes no holdings from the broker, records no parsed file and goes *)
(* on with the next enabled broker.  Otherwise the file it hands to parse  *)
(* is a matching file no other matching file is newer than.                *)
(***************************************************************************)
MatchingFiles(broker) ==
    {i \in 1..Len(statements) :
        \E p \in 1..Len(file_patterns(broker)) :
            Matches(statements[i].name, file_patterns(broker)[p])}

C20_LatestFileOrNone ==
    [][(pc = "parsing" /\ idx <= Len(PARSER_REGISTRY)) =>
          LET broker == PARSER_REGISTRY[idx]
              matching == MatchingFiles(broker)
          IN  IF matching = {}
              THEN /\ pc' = "parsing"
                   /\ idx' = NextEnabled(config, idx)
                   /\ results' = results
                   /\ parsed_files' = parsed_files
              ELSE \E i \in matching :
                      /\ \A j \in matching : statements[j].mtime <= statements[i].mtime
                      /\ \/ /\ Parse(broker, statements[i]).raised
                            /\ pc' = "raised_parse"
                         \/ /\ ~Parse(broker, statements[i]).raised
                            /\ pc' = "parsing"
                            /\ idx' = NextEnabled(config, idx)
                            /\ \/ /\ results' = results
                                  /\ parsed_files' = parsed_files
                                  /\ Parse(broker, statements[i]).result.errors # <<>>
                               \/ /\ results' = Append(results, Parse(broker, statements[i]).result)
                                  /\ parsed_files' = Append(parsed_files, statements[i].name)
      ]_vars

\* The older of two matching files is listed first, the newer one was parsed,
\* and the broker before it in the registry had no file.
C20_Witness ==
    /\ pc = "consolidated"
    /\ MatchingFiles("groww") = {}
    /\ Len(statements) = 2
    /\ MatchingFiles("zerodha") = {1, 2}
    /\ statements[1].mtime < statements[2].mtime
    /\ parsed_files = <<statements[2].name>>


(***************************************************************************)
(* C21.  When no snapshot file exists at the start of a consolidation run, *)
(* the prior snapshot is taken to be empty and the run completes without   *)
(* error: the new annotation map has the configured annotations, and the   *)
(* default annotation for every held symbol configuration does not name.   *)
(***************************************************************************)
C21_AbsentSnapshotIsEmpty ==
    [][(/\ pc = "parsing" /\ idx > Len(PARSER_REGISTRY)
        /\ disk.state = "absent"
        /\ pc' # "crashed")
       => /\ pc' = "consolidated"
          /\ DOMAIN portfolio'.stock_verdicts =
                 DOMAIN portfolio'.stocks \cup DOMAIN config.verdicts
          /\ \A sym \in DOMAIN portfolio'.stock_verdicts :
                 portfolio'.stock_verdicts[sym] =
                     IF sym \in DOMAIN config.verdicts THEN config.verdicts[sym]
                     ELSE DefaultVerdict
      ]_vars

C21_Witness ==
    /\ pc = "consolidated"
    /\ disk.state = "absent"
    /\ \E sym \in DOMAIN portfolio.stocks :
          /\ sym \notin DOMAIN config.verdicts
          /\ portfolio.stock_verdicts[sym] = DefaultVerdict


(***************************************************************************)
(* C22.  For every adapter invocation, on its success path and on every    *)
(* failure path (header not found, columns not mapped, exception while     *)
(* reading), each file or workbook the adapter opened has been closed by   *)
(* the time parse returns: no handle is left open.                         *)
(***************************************************************************)
C22_HandlesAreClosed ==
    \A i \in 1..Len(PARSER_REGISTRY) :
        LET broker == PARSER_REGISTRY[i]
        IN  Invoked(broker) => HandlesLeftOpen(broker, LatestFile(broker)) = 0


(***************************************************************************)
(* C23.  Consolidation is commutative in the order of the outcomes: for    *)
(* any two orderings of the same outcomes the per-symbol stock totals and  *)
(* blended averages, the per-ticker US totals, the annotation map and the  *)
(* ticker map are equal.                                                   *)
(***************************************************************************)
Shuffled(rs, perm) == [i \in 1..Len(rs) |-> rs[perm[i]]]

SameTotals(p, q) ==
    /\ DOMAIN p.stocks = DOMAIN q.stocks
    /\ \A sym \in DOMAIN p.stocks :
          /\ p.stocks[sym].total_qty = q.stocks[sym].total_qty
          /\ p.stocks[sym].total_invested = q.stocks[sym].total_invested
          /\ p.stocks[sym].total_closing_value = q.stocks[sym].total_closing_value
          /\ p.stocks[sym].blended_avg_price = q.stocks[sym].blended_avg_price
    /\ DOMAIN p.us_holdings = DOMAIN q.us_holdings
    /\ \A sym \in DOMAIN p.us_holdings :
          /\ p.us_holdings[sym].total_qty = q.us_holdings[sym].total_qty
          /\ p.us_holdings[sym].total_invested_usd = q.us_holdings[sym].total_invested_usd
          /\ p.us_holdings[sym].total_value_usd = q.us_holdings[sym].total_value_usd
    /\ p.stock_verdicts = q.stock_verdicts
    /\ p.yahoo_map = q.yahoo_map

WIPRO == <<"W", "I", "P", "R", "O">>

\* Snapshots a run could have started from instead: none, and one where
\* another stock is held and annotated.
OtherSnapshots ==
    {<<>>,
     [stocks |-> (WIPRO :> WithBlended(StockEntry(WIPRO))),
      stock_verdicts |-> (WIPRO :> BuyVerdict)]}

SameHoldings(p, q) ==
    /\ p.stocks = q.stocks
    /\ p.mutual_funds = q.mutual_funds
    /\ p.us_holdings = q.us_holdings
    /\ p.nps_holdings = q.nps_holdings
    /\ p.epfo_holdings = q.epfo_holdings
    /\ p.yahoo_map = q.yahoo_map
    /\ p.non_equity = q.non_equity

C24_OnlyAnnotationsCarryOver ==
    pc = "consolidated"
    => /\ \A existing \in OtherSnapshots :
              SameHoldings(portfolio,
                           ConsolidateDict(config, results, parsed_files, existing,
                                           portfolio.metadata.generated_at).portfolio)
       /\ disk.state = "complete"
          => \A sym \in DOMAIN disk.doc.stocks :
                 (\A i \in 1..Len(AllLots) : AllLots[i].symbol # sym)
                 => sym \notin DOMAIN portfolio.stocks

\* A run over a snapshot that holds a stock no current statement lists; the
\* stock's annotation is carried over, the stock is not.
C24_Witness ==
    /\ pc = "consolidated"
    /\ disk.state = "complete"
    /\ \E sym \in DOMAIN disk.doc.stocks :
          /\ sym \notin DOMAIN portfolio.stocks
          /\ sym \in DOMAIN portfolio.stock_verdicts
    /\ portfolio.stocks # <<>>


(***************************************************************************)
(* C25.  Every parse command that finishes consolidation ends with the     *)
(* snapshot written to the default file: once cmd_parse has the portfolio  *)
(* of parse_all_statements, its call of save_portfolio reaches the saved   *)
(* state (unless the process is killed).                                   *)
(***************************************************************************)
C25_ParseEndsSaved == (pc = "consolidated") ~> (pc \in {"saved", "crashed"})


(***************************************************************************)
(* C27.  A consolidation run completes for every state of the snapshot     *)
(* file, the truncated or invalid document an interrupted save leaves      *)
(* included: once the statements are parsed, _consolidate returns the      *)
(* portfolio (unless the process is killed).                               *)
(***************************************************************************)
C27_ConsolidationCompletes ==
    (pc = "parsing" /\ idx > Len(PARSER_REGISTRY)) ~> (pc \in {"consolidated", "crashed"})


(***************************************************************************)
(* generate_dashboard, dashboard.py lines 74-113 (send_email reads the     *)
(* same keys, email_sender.py lines 96-112): what the reader takes out of  *)
(* the snapshot document data.                                             *)
(***************************************************************************)
\* d.get(key, default)
Get(d, key, default) == IF key \in DOMAIN d THEN d[key] ELSE default

DashboardVerdicts(data) == Get(data, "verdicts", <<>>)
DashboardYahooMap(data) == Get(data, "yahoo_symbol_map", <<>>)

\* one iteration of the loop of lines 95-113
DashboardHolding(data, symbol) ==
    LET info == Get(data, "stocks", <<>>)[symbol]
        qty == Get(info, "qty", 0)
        avg_price == Get(info, "avg_price", 0)
    IN  [symbol |-> symbol, qty |-> qty, avg_price |-> avg_price,
         invested |-> Get(info, "invested", qty * avg_price)]

(***************************************************************************)
(* C26.  The snapshot consolidation writes and the snapshot the dashboard  *)
(* and the email read agree on the keys: the reader finds each symbol's    *)
(* annotation, external ticker, quantity, invested amount and average cost *)
(* as the writer stored them.                                              *)
(***************************************************************************)
C26_ReaderAgreesWithWriter ==
    disk.state = "complete"
    => /\ DashboardVerdicts(disk.doc) = disk.doc.stock_verdicts
       /\ DashboardYahooMap(disk.doc) = disk.doc.yahoo_map
       /\ \A sym \in DOMAIN disk.doc.stocks :
             LET holding == DashboardHolding(disk.doc, sym)
                 stored == disk.doc.stocks[sym]
             IN  /\ holding.qty = stored.total_qty
                 /\ holding.invested = stored.total_invested
                 /\ holding.avg_price = stored.blended_avg_price


(***************************************************************************)
(* C29.  Constructing a Config from config.yaml leaves the module-level    *)
(* DEFAULTS unchanged: after Config() the dict DEFAULTS holds what the     *)
(* module defines.                                                         *)
(***************************************************************************)
C29_DefaultsUnchanged == config # NoConfig => defaults = DEFAULTS


(***************************************************************************)
(* C30.  Dhan: a raw symbol of the form EXCHANGE-SYMBOL, EXCHANGE being    *)
(* NSE or BSE, yields SYMBOL for every non-empty SYMBOL, those of one or   *)
(* two characters included, and never the exchange code itself.            *)
(***************************************************************************)
ExchangeCodes == {<<"N", "S", "E">>, <<"B", "S", "E">>}

HasExchangePrefix(raw) ==
    /\ Len(raw) > 4
    /\ SubSeq(raw, 1, 3) \in ExchangeCodes
    /\ raw[4] = "-"

C30_ExchangePrefixIsStripped ==
    LET file == LatestFile("dhan")
        kept == SelectSeq(file.rows, DhanKeepsRow)
        stocks == Call("dhan").result.stocks
    IN  (Invoked("dhan") /\ file.readable /\ file.header = "ok")
        => \A i \in 1..Len(kept) :
               LET raw == Upper(Strip(kept[i].symbol))
               IN  HasExchangePrefix(raw)
                   => /\ stocks[i].symbol = SubSeq(raw, 5, Len(raw))
                      /\ stocks[i].symbol \notin ExchangeCodes


(***************************************************************************)
(* C28.  Distinct securities of a Groww statement are never merged: a      *)
(* company's name resolves to a symbol of its own, and a name that is not  *)
(* in GROWW_NAME_MAP never resolves to the symbol of another company, that *)
(* is, to a symbol ISIN_MAP gives to an ISIN other than the row's.         *)
(***************************************************************************)
C28_DistinctSecuritiesStayDistinct ==
    LET file == LatestFile("groww")
        kept == SelectSeq(file.rows, GrowwKeepsRow)
        stocks == Call("groww").result.stocks
    IN  (/\ Invoked("groww")
         /\ file.readable /\ file.header = "ok"
         /\ ~Call("groww").raised)
        => \A i \in 1..Len(kept) :
               Strip(kept[i].isin) # <<>>
               => \A j \in 1..Len(ISIN_MAP) :
                      ISIN_MAP[j][2] = stocks[i].symbol
                      => ISIN_MAP[j][1] = Strip(kept[i].isin)

====
